---- MODULE Spec2Model ----
(***************************************************************************)
(* Model of the deepagents middleware.  From the filesystem middleware     *)
(* (libs/deepagents/src/middleware/fs.ts): the file-state reducer, the     *)
(* branches whose deltas it reconciles, the tool-result eviction           *)
(* interceptor (wrapToolCall), the content preview, and the read_file,     *)
(* write_file, edit_file, grep and execute tools.  From the skills         *)
(* middleware and the memory middleware (middleware/memory.ts): the        *)
(* loading of sources in beforeAgent, the runs one middleware instance     *)
(* serves, the skills reducer, and what wrapModelCall puts in the prompt.  *)
(* From the web-ui example: the filesystem routes and streamResearch of    *)
(* the server, and the useRecentInputs hook of the client.                 *)
(*                                                                         *)
(* Strings are modelled by what the code does with them.  A text is the    *)
(* sequence of its lines (what split("\n") returns), a line is a run       *)
(* <<ch, n>> of n copies of the character ch, so lengths, substring(0, k)  *)
(* and equality of texts are computed exactly on this class of strings.    *)
(* A tool-call id is the sequence of its characters, a path the sequence   *)
(* of its segments.  Characters that String.replace treats specially ($)   *)
(* are outside this class of strings.                                      *)
(***************************************************************************)
EXTENDS Integers, Sequences, FiniteSets, TLC

VARIABLES
    \* ---- fileDataReducer as a pure function (SpecReducer)
    rpc,        \* "input" | "reduced" | "again"
    cur,        \* current: optional FilesRecord
    upd,        \* update: optional FilesRecordUpdate
    out,        \* fileDataReducer(cur, upd)
    out2,       \* fileDataReducer(out, upd)
    \* ---- parallel branches reconciled by the reducer (SpecBranches)
    files0,     \* the FilesMap before any branch completed
    bfiles,     \* the files channel of the run
    bpc,        \* branch -> "idle" | "started" | "called" | "applied"
    delta,      \* branch -> the FileUpdate its tool calls produced
    startOrder, \* branches in the order they were started
    callOrder,  \* branches in the order they issued their calls
    applyOrder, \* branches in the order their deltas were applied
    \* ---- the eviction interceptor, wrapToolCall (SpecEvict)
    epc,        \* "ready" | "returned" | "applied"
    request,    \* the tool call: name, id, and the middleware's configuration
    hres,       \* what handler(request) returns: a ToolMessage or a Command
    toolTokenLimitBeforeEvict, \* the middleware's option (0: eviction disabled)
    backend,    \* the resolved backend: where it keeps content, what it refuses
    files,      \* state.files of the run (the reducer's channel)
    store,      \* the content an external backend keeps outside the state
    now,        \* the clock the backend stamps files with
    calls,      \* how many times the call was made (1: first, 2: retried)
    ret,        \* what wrapToolCall returned last
    writes,     \* the backend writes the last wrapToolCall performed
    first,      \* ret and writes of the first call
    \* ---- createContentPreview as a pure function (SpecPreview)
    pvpc,       \* "input" | "done"
    pvContent,  \* contentStr, as its lines
    pvHead,     \* headLines
    pvTail,     \* tailLines
    pvOut,      \* createContentPreview(pvContent, pvHead, pvTail)
    \* ---- the read_file tool as a function of what the backend returns (SpecRead)
    rdpc,       \* "input" | "done"
    rdResult,   \* what resolvedBackend.read(file_path, offset, limit) returns
    rdLimit,    \* input.limit
    rdTokenLimit, \* options.toolTokenLimitBeforeEvict (0: null or 0)
    rdPathLen,  \* file_path.length
    rdOut,      \* the text the tool returns
    \* ---- a session of read_file, write_file and edit_file calls (SpecSession)
    ssFiles,    \* state.files
    ssReads,    \* the paths read_file was called on so far
    ssCalls,    \* how many tool calls were made
    ssLast,     \* the last tool call and what came of it
    ssBackend,  \* "state" | "external": the backend the run resolves
    ssDisk,     \* the files an external backend keeps outside the state
    \* ---- the skills middleware (SpecLoaders)
    skBackend,  \* source path -> what the backend lists and returns under it
    loadedSkills, \* the closure variable of createSkillsMiddleware
    skState,    \* state.skillsMetadata of the run
    skCalls,    \* how many times beforeAgent was called in the run
    skLast,     \* the last beforeAgent call and what came of it
    skRun,      \* the run the instance serves: its number and the state it started with
    \* ---- the memory middleware (SpecLoaders)
    memBackend, \* whether the backend has downloadFiles, and what each path gives
    memSources, \* options.sources, in configured order
    memState,   \* state.memoryContents of the run
    memCalls,   \* how many times beforeAgent was called in the run
    memLoad,    \* the beforeAgent call that loaded: what each source came to
    memPrompt,  \* what wrapModelCall put in the system prompt
    \* ---- the execute tool and its exposure to the model (SpecExecute)
    exBackend,  \* options.backend: an instance, or a factory of the state
    exState,    \* the state of the run the backend is resolved from
    exTools,    \* request.tools of a model call
    exRan,      \* the commands the backend executed, in order
    exCalls,    \* how many model calls and tool calls were made
    exLast,     \* the last call and what came of it
    \* ---- the grep tool as a pure function (SpecGrep)
    gppc,       \* "input" | "done"
    gpResult,   \* what grepRaw returned: an error text or the matches
    gpOut,      \* what the tool returned
    \* ---- skillsMetadataReducer as a pure function (SpecSkillsReducer)
    srpc,       \* "input" | "done"
    srCurrent,  \* current: optional array of skills
    srUpdate,   \* update: optional array of skills
    srOut,      \* skillsMetadataReducer(current, update)
    \* ---- the filesystem routes of the web-ui server (SpecRoutes)
    rtFs,       \* the file system: path -> "dir" | "file"
    rtCount,    \* how many requests were answered
    rtLast,     \* the last request and what came of it
    \* ---- streamResearch of the web-ui server (SpecResearch)
    rsPc,       \* where streamResearch stands
    rsIn,       \* the stored session before the call and what the knowledge backend answers
    rsAborted,  \* abortSignal.aborted
    rsSession,  \* the status in the persisted session file
    rsLeft,     \* files or todos the running loop has still to go through
    rsRelevant, \* relevantFiles.length
    \* ---- the useRecentInputs hook of the web-ui client (SpecRecent)
    recentInputs, \* the state of the hook
    riStorage,  \* localStorage[STORAGE_KEY]: optional list
    riMounted,  \* whether the mount effect has run
    riCalls,    \* how many calls were made
    riLast      \* the last call and the list before it

redVars == <<rpc, cur, upd, out, out2>>
brVars == <<files0, bfiles, bpc, delta, startOrder, callOrder, applyOrder>>
evVars == <<epc, request, hres, toolTokenLimitBeforeEvict, backend, files, store, now, calls, ret, writes, first>>
pvVars == <<pvpc, pvContent, pvHead, pvTail, pvOut>>
rdVars == <<rdpc, rdResult, rdLimit, rdTokenLimit, rdPathLen, rdOut>>
ssVars == <<ssFiles, ssReads, ssCalls, ssLast, ssBackend, ssDisk>>
skVars == <<skBackend, loadedSkills, skState, skCalls, skLast, skRun>>
memVars == <<memBackend, memSources, memState, memCalls, memLoad, memPrompt>>
exVars == <<exBackend, exState, exTools, exRan, exCalls, exLast>>
gpVars == <<gppc, gpResult, gpOut>>
srVars == <<srpc, srCurrent, srUpdate, srOut>>
rtVars == <<rtFs, rtCount, rtLast>>
rsVars == <<rsPc, rsIn, rsAborted, rsSession, rsLeft, rsRelevant>>
riVars == <<recentInputs, riStorage, riMounted, riCalls, riLast>>
vars == <<redVars, brVars, evVars, pvVars, rdVars, ssVars, skVars, memVars, exVars, gpVars, srVars, rtVars, rsVars, riVars>>

--------------------------------------------------------------------------
\* Bounds of the model.
MaxVals == 2        \* distinct FileData values in the reducer's inputs
MaxPaths == 2       \* distinct paths in the reducer's inputs
MaxBranches == 2    \* parallel branches

--------------------------------------------------------------------------
\* Optional values: `undefined` and a defined value.
Undefined == [def |-> FALSE, v |-> {}]
Some(x) == [def |-> TRUE, v |-> x]

\* FileData (FileDataSchema): content lines and the two timestamps.
FileData(lines, created, modified) ==
    [content |-> lines, created_at |-> created, modified_at |-> modified]

\* null in a FilesRecordUpdate: the deletion marker.
Null == [null |-> TRUE]

EmptyMap == [k \in {} |-> Null]

Put(m, k, x) == [j \in DOMAIN m \cup {k} |-> IF j = k THEN x ELSE m[j]]
Delete(m, k) == [j \in DOMAIN m \ {k} |-> m[j]]

\* for (const [key, value] of Object.entries(update)) { ... } of the merge
\* branch: delete on null, upsert otherwise.
RECURSIVE MergeEntries(_, _, _)
MergeEntries(result, update, keys) ==
    IF keys = {} THEN result
    ELSE LET key == CHOOSE k \in keys : TRUE
             value == update[key]
         IN  MergeEntries(IF value = Null THEN Delete(result, key)
                                          ELSE Put(result, key, value),
                          update, keys \ {key})

\* The loop of the `current === undefined` branch: keep the non-null entries.
RECURSIVE SeedEntries(_, _, _)
SeedEntries(result, update, keys) ==
    IF keys = {} THEN result
    ELSE LET key == CHOOSE k \in keys : TRUE
             value == update[key]
         IN  SeedEntries(IF value # Null THEN Put(result, key, value) ELSE result,
                         update, keys \ {key})

\* A reducer that, on a null, leaves the key in place (a plausible slip).
FileDataReducerKeepsDeleted(current, update) ==
    IF ~update.def THEN (IF current.def THEN current.v ELSE EmptyMap)
    ELSE LET base == IF current.def THEN current.v ELSE EmptyMap
         IN  SeedEntries(base, update.v, DOMAIN update.v)

\* A reducer that keeps an entry that is already there (first writer wins).
FileDataReducerFirstWins(current, update) ==
    IF ~update.def THEN (IF current.def THEN current.v ELSE EmptyMap)
    ELSE LET base == IF current.def THEN current.v ELSE EmptyMap
             fresh == {k \in DOMAIN update.v : k \notin DOMAIN base}
         IN  SeedEntries(base, update.v, fresh)

\* A reducer that forgets to drop the null entries when current is undefined.
FileDataReducerSeedsNulls(current, update) ==
    IF ~update.def THEN (IF current.def THEN current.v ELSE EmptyMap)
    ELSE IF ~current.def THEN update.v
    ELSE MergeEntries(current.v, update.v, DOMAIN update.v)

\* A reducer that takes the update for the whole map.
FileDataReducerReplacesAll(current, update) ==
    IF ~update.def THEN (IF current.def THEN current.v ELSE EmptyMap)
    ELSE SeedEntries(EmptyMap, update.v, {k \in DOMAIN update.v : update.v[k] # Null})

\* fileDataReducer(current, update)
fileDataReducer(current, update) ==
    IF ~update.def
    THEN (IF current.def THEN current.v ELSE EmptyMap)
    ELSE IF ~current.def
    THEN SeedEntries(EmptyMap, update.v, DOMAIN update.v)
    ELSE MergeEntries(current.v, update.v, DOMAIN update.v)

--------------------------------------------------------------------------
\* Inputs of the reducer.
Line(ch, n) == <<ch, n>>

RECURSIVE PathOfDepth(_)
PathOfDepth(n) == IF n = 0 THEN <<"f">> ELSE PathOfDepth(n - 1) \o <<"x">>

Paths == {PathOfDepth(n) : n \in 0..(MaxPaths - 1)}
FileDatas == {FileData(<<Line("a", v)>>, 0, v) : v \in 1..MaxVals}

PartialMaps(keys, values) ==
    UNION {[d -> values] : d \in SUBSET keys}

FilesRecords == PartialMaps(Paths, FileDatas)
FilesRecordUpdates == PartialMaps(Paths, FileDatas \cup {Null})

Optional(S) == {Undefined} \cup {Some(x) : x \in S}

--------------------------------------------------------------------------
\* SpecReducer: the reducer applied to every pair of inputs, and then applied
\* again to its own result with the same update.
BranchesIdle ==
    /\ files0 = EmptyMap
    /\ bfiles = EmptyMap
    /\ bpc = [b \in {} |-> "idle"]
    /\ delta = [b \in {} |-> EmptyMap]
    /\ startOrder = <<>>
    /\ callOrder = <<>>
    /\ applyOrder = <<>>

EvictIdle ==
    /\ epc = "off"
    /\ request = [off |-> TRUE]
    /\ hres = [off |-> TRUE]
    /\ toolTokenLimitBeforeEvict = 0
    /\ backend = [off |-> TRUE]
    /\ files = EmptyMap
    /\ store = EmptyMap
    /\ now = 0
    /\ calls = 0
    /\ ret = [off |-> TRUE]
    /\ writes = <<>>
    /\ first = [off |-> TRUE]

ReducerIdle ==
    /\ rpc = "off"
    /\ cur = Undefined
    /\ upd = Undefined
    /\ out = EmptyMap
    /\ out2 = EmptyMap

PreviewIdle ==
    /\ pvpc = "off"
    /\ pvContent = <<>>
    /\ pvHead = 0
    /\ pvTail = 0
    /\ pvOut = <<>>

ReadIdle ==
    /\ rdpc = "off"
    /\ rdResult = <<>>
    /\ rdLimit = 0
    /\ rdTokenLimit = 0
    /\ rdPathLen = 0
    /\ rdOut = <<>>

SessionIdle ==
    /\ ssFiles = EmptyMap
    /\ ssReads = {}
    /\ ssCalls = 0
    /\ ssLast = [tool |-> "off"]
    /\ ssBackend = "off"
    /\ ssDisk = EmptyMap

SkillsIdle ==
    /\ skBackend = EmptyMap
    /\ loadedSkills = <<>>
    /\ skState = <<>>
    /\ skCalls = 0
    /\ skLast = [call |-> "off"]
    /\ skRun = [n |-> 0, restored |-> <<>>]

MemoryIdle ==
    /\ memBackend = [off |-> TRUE]
    /\ memSources = <<>>
    /\ memState = Undefined
    /\ memCalls = 0
    /\ memLoad = [done |-> FALSE, thrown |-> FALSE, log |-> <<>>]
    /\ memPrompt = [kind |-> "off", sections |-> <<>>]

ExecuteIdle ==
    /\ exBackend = [off |-> TRUE]
    /\ exState = "off"
    /\ exTools = {}
    /\ exRan = <<>>
    /\ exCalls = 0
    /\ exLast = [call |-> "off"]

GrepIdle ==
    /\ gppc = "off"
    /\ gpResult = [off |-> TRUE]
    /\ gpOut = <<>>

SkillsReducerIdle ==
    /\ srpc = "off"
    /\ srCurrent = Undefined
    /\ srUpdate = Undefined
    /\ srOut = <<>>

RoutesIdle ==
    /\ rtFs = EmptyMap
    /\ rtCount = 0
    /\ rtLast = [route |-> "off"]

ResearchIdle ==
    /\ rsPc = "off"
    /\ rsIn = [off |-> TRUE]
    /\ rsAborted = FALSE
    /\ rsSession = "none"
    /\ rsLeft = 0
    /\ rsRelevant = 0

RecentIdle ==
    /\ recentInputs = <<>>
    /\ riStorage = Undefined
    /\ riMounted = FALSE
    /\ riCalls = 0
    /\ riLast = [op |-> "off"]

\* Every part of the model but g is at rest, and stays as it is.
IdleBut(g) ==
    /\ IF g = "reducer" THEN TRUE ELSE ReducerIdle
    /\ IF g = "branches" THEN TRUE ELSE BranchesIdle
    /\ IF g = "evict" THEN TRUE ELSE EvictIdle
    /\ IF g = "preview" THEN TRUE ELSE PreviewIdle
    /\ IF g = "read" THEN TRUE ELSE ReadIdle
    /\ IF g = "session" THEN TRUE ELSE SessionIdle
    /\ IF g = "skills" THEN TRUE ELSE SkillsIdle
    /\ IF g = "memory" THEN TRUE ELSE MemoryIdle
    /\ IF g = "execute" THEN TRUE ELSE ExecuteIdle
    /\ IF g = "grep" THEN TRUE ELSE GrepIdle
    /\ IF g = "skred" THEN TRUE ELSE SkillsReducerIdle
    /\ IF g = "routes" THEN TRUE ELSE RoutesIdle
    /\ IF g = "research" THEN TRUE ELSE ResearchIdle
    /\ IF g = "recent" THEN TRUE ELSE RecentIdle

Frame(g) ==
    /\ IF g = "reducer" THEN TRUE ELSE UNCHANGED redVars
    /\ IF g = "branches" THEN TRUE ELSE UNCHANGED brVars
    /\ IF g = "evict" THEN TRUE ELSE UNCHANGED evVars
    /\ IF g = "preview" THEN TRUE ELSE UNCHANGED pvVars
    /\ IF g = "read" THEN TRUE ELSE UNCHANGED rdVars
    /\ IF g = "session" THEN TRUE ELSE UNCHANGED ssVars
    /\ IF g = "skills" THEN TRUE ELSE UNCHANGED skVars
    /\ IF g = "memory" THEN TRUE ELSE UNCHANGED memVars
    /\ IF g = "execute" THEN TRUE ELSE UNCHANGED exVars
    /\ IF g = "grep" THEN TRUE ELSE UNCHANGED gpVars
    /\ IF g = "skred" THEN TRUE ELSE UNCHANGED srVars
    /\ IF g = "routes" THEN TRUE ELSE UNCHANGED rtVars
    /\ IF g = "research" THEN TRUE ELSE UNCHANGED rsVars
    /\ IF g = "recent" THEN TRUE ELSE UNCHANGED riVars

InitReducer ==
    /\ IdleBut("reducer")
    /\ rpc = "input"
    /\ cur \in Optional(FilesRecords)
    /\ upd \in Optional(FilesRecordUpdates)
    /\ out = EmptyMap
    /\ out2 = EmptyMap

Reduce ==
    /\ rpc = "input"
    /\ out' = fileDataReducer(cur, upd)
    /\ rpc' = "reduced"
    /\ UNCHANGED <<cur, upd, out2>>
    /\ Frame("reducer")

ReduceAgain ==
    /\ rpc = "reduced"
    /\ out2' = fileDataReducer(Some(out), upd)
    /\ rpc' = "again"
    /\ UNCHANGED <<cur, upd, out>>
    /\ Frame("reducer")

NextReducer == Reduce \/ ReduceAgain

SpecReducer == InitReducer /\ [][NextReducer]_vars

--------------------------------------------------------------------------
\* SpecBranches: sub-agent branches start, issue their tool calls (which give
\* each branch its FileUpdate), and complete; the reducer is invoked once per
\* completion, against the files channel as it is at that moment.
Branches == 1..MaxBranches

BranchPaths == {<<"a">>, <<"b">>}

\* What branch b can write: its own FileData, or a deletion.
BranchData(b) == FileData(<<Line("b", b)>>, b, b)

BranchUpdates(b) == PartialMaps(BranchPaths, {BranchData(b), Null})

InitFiles == PartialMaps(BranchPaths, {FileData(<<Line("i", 0)>>, 0, 0)})

InitBranches ==
    /\ IdleBut("branches")
    /\ files0 \in InitFiles
    /\ bfiles = files0
    /\ bpc = [b \in Branches |-> "idle"]
    /\ delta = [b \in Branches |-> EmptyMap]
    /\ startOrder = <<>>
    /\ callOrder = <<>>
    /\ applyOrder = <<>>

StartBranch(b) ==
    /\ bpc[b] = "idle"
    /\ bpc' = [bpc EXCEPT ![b] = "started"]
    /\ startOrder' = Append(startOrder, b)
    /\ UNCHANGED <<files0, bfiles, delta, callOrder, applyOrder>>
    /\ Frame("branches")

CallTools(b) ==
    /\ bpc[b] = "started"
    /\ \E u \in BranchUpdates(b) : delta' = [delta EXCEPT ![b] = u]
    /\ bpc' = [bpc EXCEPT ![b] = "called"]
    /\ callOrder' = Append(callOrder, b)
    /\ UNCHANGED <<files0, bfiles, startOrder, applyOrder>>
    /\ Frame("branches")

CompleteBranch(b) ==
    /\ bpc[b] = "called"
    /\ bfiles' = fileDataReducer(Some(bfiles), Some(delta[b]))
    /\ bpc' = [bpc EXCEPT ![b] = "applied"]
    /\ applyOrder' = Append(applyOrder, b)
    /\ UNCHANGED <<files0, delta, startOrder, callOrder>>
    /\ Frame("branches")

NextBranches ==
    \/ \E b \in Branches : StartBranch(b)
    \/ \E b \in Branches : CallTools(b)
    \/ \E b \in Branches : CompleteBranch(b)

SpecBranches == InitBranches /\ [][NextBranches]_vars

--------------------------------------------------------------------------
\* Strings.
EmptyLine == Line("", 0)
LineLen(l) == l[2]

Min(a, b) == IF a < b THEN a ELSE b
Max(a, b) == IF a > b THEN a ELSE b

\* A preview that keeps every line whole.
SubstringUncapped(l, k) == l

\* line.substring(0, k)
Substring(l, k) ==
    IF Min(LineLen(l), k) <= 0 THEN EmptyLine ELSE Line(l[1], Min(LineLen(l), k))

RECURSIVE SumLineLens(_)
SumLineLens(lines) ==
    IF lines = <<>> THEN 0 ELSE LineLen(Head(lines)) + SumLineLens(Tail(lines))

\* content.length of the string whose split("\n") is `lines`.
TextLen(lines) == SumLineLens(lines) + (Len(lines) - 1)

RECURSIVE Digits(_)
Digits(n) == IF n < 10 THEN 1 ELSE 1 + Digits(n \div 10)

\* lines.slice(a, b) and lines.slice(start) of JavaScript arrays; a negative
\* start counts from the end, and -0 is 0.
Slice(lines, a, b) == SubSeq(lines, a + 1, Min(b, Len(lines)))

\* A tail that starts one line late.
SliceFromOneShort(lines, start) ==
    SubSeq(lines, Max(Len(lines) + start, 0) + 2, Len(lines))

SliceFrom(lines, start) ==
    LET from == IF start < 0 THEN Max(Len(lines) + start, 0)
                             ELSE Min(start, Len(lines))
    IN  SubSeq(lines, from + 1, Len(lines))

MapLines(lines, k) == [i \in 1..Len(lines) |-> Substring(lines[i], k)]

--------------------------------------------------------------------------
\* Program constants.
NUM_CHARS_PER_TOKEN == 4
DefaultLimit == 20000       \* toolTokenLimitBeforeEvict = 20000
DefaultHeadLines == 5
DefaultTailLines == 5
PreviewLineChars == 1000    \* line.substring(0, 1000)
NoticeFixedLen == 567       \* TOO_LARGE_TOOL_MSG without its three placeholders
EvictDirLen == 20           \* "/large_tool_results/"
MarkerFixedLen == 26        \* "... [" and " lines truncated] ..."
LINE_NUMBER_WIDTH == 6      \* cat -n format

TOOLS_EXCLUDED_FROM_EVICTION ==
    {"ls", "glob", "grep", "read_file", "edit_file", "write_file"}

--------------------------------------------------------------------------
\* formatContentWithLineNumbers(lines, startLine): one numbered output line
\* per line; the string is their join with "\n" ("" for no line).
formatContentWithLineNumbers(lines, startLine) ==
    [i \in 1..Len(lines) |->
        [kind |-> "numbered", num |-> startLine + i - 1, line |-> lines[i]]]

\* The output line of the truncation notice, and the empty output line.
MarkerLine(n) == [kind |-> "marker", n |-> n]
EmptyOut == [kind |-> "empty"]

\* The lines of sample + "\n..." when the sample is the empty string.
SampleLines(sample) == IF sample = <<>> THEN <<EmptyOut>> ELSE sample

OutLineLen(o) ==
    CASE o.kind = "numbered" ->
            Max(Digits(o.num), LINE_NUMBER_WIDTH) + 1 + LineLen(o.line)
      [] o.kind = "marker" -> MarkerFixedLen + Digits(o.n)
      [] OTHER -> 0

RECURSIVE SumOutLens(_)
SumOutLens(outs) ==
    IF outs = <<>> THEN 0 ELSE OutLineLen(Head(outs)) + SumOutLens(Tail(outs))

OutTextLen(outs) == IF outs = <<>> THEN 0 ELSE SumOutLens(outs) + (Len(outs) - 1)

\* createContentPreview(contentStr, headLines, tailLines): the output lines of
\* the preview.
createContentPreview(contentStr, headLines, tailLines) ==
    LET lines == contentStr
    IN  IF Len(lines) <= headLines + tailLines
        THEN formatContentWithLineNumbers(MapLines(lines, PreviewLineChars), 1)
        ELSE LET head == MapLines(Slice(lines, 0, headLines), PreviewLineChars)
                 tail == MapLines(SliceFrom(lines, 0 - tailLines), PreviewLineChars)
                 headSample == formatContentWithLineNumbers(head, 1)
                 truncationNotice ==
                     MarkerLine(Len(lines) - headLines - tailLines)
                 tailSample ==
                     formatContentWithLineNumbers(tail, Len(lines) - tailLines + 1)
             IN  SampleLines(headSample) \o <<truncationNotice>>
                     \o SampleLines(tailSample)

--------------------------------------------------------------------------
\* Messages and handler results.
TextContent(lines) == [kind |-> "text", lines |-> lines]
BlocksContent == [kind |-> "blocks"]        \* content that is not a string
NoticeContent(id, path, sample) ==
    [kind |-> "notice", tool_call_id |-> id, file_path |-> path,
     content_sample |-> sample]

ToolMessage(content, id, name) ==
    [type |-> "tool", content |-> content, tool_call_id |-> id, name |-> name]
AIMessage(content) == [type |-> "ai", content |-> content]

PathLen(path) == EvictDirLen + (Len(path) - 1)

\* msg.content.length
ContentLen(c) ==
    CASE c.kind = "text" -> TextLen(c.lines)
      [] c.kind = "notice" ->
            NoticeFixedLen + Len(c.tool_call_id) + PathLen(c.file_path)
                + OutTextLen(c.content_sample)
      [] OTHER -> 0

MessageResult(msg) == [rtype |-> "message", msg |-> msg]
Command(update) == [rtype |-> "command", update |-> update]
Update(messages, fs, other) ==
    Some([messages |-> messages, files |-> fs, other |-> other])

NoId == <<>>        \* an absent or empty tool-call id (both are falsy)
NoName == ""

\* sanitizeToolCallId(id): ".", "/" and "\" become "_".
sanitizeToolCallId(id) ==
    [i \in 1..Len(id) |-> IF id[i] \in {".", "/", "\\"} THEN "_" ELSE id[i]]

\* An eviction that names the file after the message's own id only.
EvictionIdOfMessage(msg) == msg.tool_call_id

\* request.toolCall?.id || msg.tool_call_id
EvictionId(msg) == IF request.id # NoId THEN request.id ELSE msg.tool_call_id

\* A path that also depends on the time of the call.
EvictPathByTime(sanitizedId) == <<"large_tool_results">> \o sanitizedId \o <<"@">>
                                    \o [i \in 1..now |-> "t"]

\* `/large_tool_results/${sanitizedId}`
EvictPath(sanitizedId) == <<"large_tool_results">> \o sanitizedId

\* resolvedBackend.write(path, content): creates or replaces the file.  A
\* backend that keeps files in the state returns the FileUpdate, one that
\* keeps them outside returns none; a refused write returns an error.
BackendWrite(path, lines) ==
    IF path \in backend.denies
    THEN [error |-> TRUE, filesUpdate |-> Undefined]
    ELSE [error |-> FALSE,
          filesUpdate |-> IF backend.kind = "state"
                          THEN Some([k \in {path} |-> FileData(lines, now, now)])
                          ELSE Undefined]

\* The content a later read of `path` finds.
StoredAt(path) ==
    IF backend.kind = "state"
    THEN (IF path \in DOMAIN files THEN Some(files[path].content) ELSE Undefined)
    ELSE (IF path \in DOMAIN store THEN Some(store[path].content) ELSE Undefined)

\* The test with >= in place of >.
ExceedsLimitInclusive(content, limit) ==
    /\ content.kind = "text"
    /\ TextLen(content.lines) >= limit * NUM_CHARS_PER_TOKEN

\* typeof msg.content === "string" &&
\*   msg.content.length > toolTokenLimitBeforeEvict * NUM_CHARS_PER_TOKEN
ExceedsLimit(content, limit) ==
    /\ content.kind = "text"
    /\ TextLen(content.lines) > limit * NUM_CHARS_PER_TOKEN

\* The replacement text: TOO_LARGE_TOOL_MSG with its placeholders filled in.
ReplacementText(msg, evictPath) ==
    NoticeContent(msg.tool_call_id, evictPath,
                  createContentPreview(msg.content.lines,
                                       DefaultHeadLines, DefaultTailLines))

\* A processToolMessage that drops the message when the write fails.
ProcessToolMessageLosesOnError(msg, limit) ==
    IF ExceedsLimit(msg.content, limit)
    THEN LET evictPath == EvictPath(sanitizeToolCallId(EvictionId(msg)))
             writeResult == BackendWrite(evictPath, msg.content.lines)
         IN  [message |-> ToolMessage(ReplacementText(msg, evictPath),
                                      msg.tool_call_id, msg.name),
              filesUpdate |-> writeResult.filesUpdate,
              writes |-> <<[path |-> evictPath, content |-> msg.content.lines,
                            ok |-> ~writeResult.error]>>]
    ELSE [message |-> msg, filesUpdate |-> Undefined, writes |-> <<>>]

\* processToolMessage(msg, toolTokenLimitBeforeEvict): the message to return,
\* the filesUpdate of the write (Undefined for null), and the write made.
processToolMessage(msg, limit) ==
    IF ExceedsLimit(msg.content, limit)
    THEN LET sanitizedId == sanitizeToolCallId(EvictionId(msg))
             evictPath == EvictPath(sanitizedId)
             writeResult == BackendWrite(evictPath, msg.content.lines)
             written == <<[path |-> evictPath, content |-> msg.content.lines,
                           ok |-> ~writeResult.error]>>
         IN  IF writeResult.error
             THEN [message |-> msg, filesUpdate |-> Undefined, writes |-> written]
             ELSE [message |-> ToolMessage(ReplacementText(msg, evictPath),
                                           msg.tool_call_id, msg.name),
                   filesUpdate |-> writeResult.filesUpdate,
                   writes |-> written]
    ELSE [message |-> msg, filesUpdate |-> Undefined, writes |-> <<>>]

\* Object.assign(target, source)
RECURSIVE ObjectAssign(_, _, _)
ObjectAssign(target, source, keys) ==
    IF keys = {} THEN target
    ELSE LET k == CHOOSE x \in keys : TRUE
         IN  ObjectAssign(Put(target, k, source[k]), source, keys \ {k})

\* A loop that leaves out the messages that are not tool messages.
RECURSIVE ProcessMessagesSkipsOthers(_, _, _)
ProcessMessagesSkipsOthers(messages, limit, acc) ==
    IF messages = <<>> THEN acc
    ELSE LET msg == Head(messages)
             processed == processToolMessage(msg, limit)
         IN  ProcessMessagesSkipsOthers(Tail(messages), limit,
                IF msg.type = "tool"
                THEN [processedMessages |->
                          Append(acc.processedMessages, processed.message),
                      hasLargeResults |->
                          acc.hasLargeResults \/ processed.filesUpdate.def,
                      accumulatedFiles |->
                          IF processed.filesUpdate.def
                          THEN ObjectAssign(acc.accumulatedFiles,
                                            processed.filesUpdate.v,
                                            DOMAIN processed.filesUpdate.v)
                          ELSE acc.accumulatedFiles,
                      writes |-> acc.writes \o processed.writes]
                ELSE acc)

\* for (const msg of update.messages) { ... }: acc holds hasLargeResults,
\* accumulatedFiles, processedMessages and the writes made so far.
RECURSIVE ProcessMessages(_, _, _)
ProcessMessages(messages, limit, acc) ==
    IF messages = <<>> THEN acc
    ELSE LET msg == Head(messages)
             processed == processToolMessage(msg, limit)
         IN  ProcessMessages(Tail(messages), limit,
                IF msg.type = "tool"
                THEN [processedMessages |->
                          Append(acc.processedMessages, processed.message),
                      hasLargeResults |->
                          acc.hasLargeResults \/ processed.filesUpdate.def,
                      accumulatedFiles |->
                          IF processed.filesUpdate.def
                          THEN ObjectAssign(acc.accumulatedFiles,
                                            processed.filesUpdate.v,
                                            DOMAIN processed.filesUpdate.v)
                          ELSE acc.accumulatedFiles,
                      writes |-> acc.writes \o processed.writes]
                ELSE [acc EXCEPT !.processedMessages = Append(@, msg)])

\* A test that exempts nothing.
IsExcludedNever(toolName) == FALSE

\* toolName && TOOLS_EXCLUDED_FROM_EVICTION.includes(toolName)
IsExcluded(toolName) ==
    toolName # NoName /\ toolName \in TOOLS_EXCLUDED_FROM_EVICTION

\* A return that forgets the files update of the eviction.
SingleResultDropsFiles(processed) == MessageResult(processed.message)

\* if (processed.filesUpdate) return new Command({update: {files, messages}});
\* return processed.message;
SingleResult(processed) ==
    IF processed.filesUpdate.def
    THEN Command(Update(Some(<<processed.message>>), processed.filesUpdate,
                        Undefined))
    ELSE MessageResult(processed.message)

\* wrapToolCall(request, handler): what it returns and the backend writes
\* it makes, for the handler result hres.
wrapToolCall ==
    LET pass == [result |-> hres, writes |-> <<>>]
        limit == toolTokenLimitBeforeEvict
    IN  IF limit = 0 THEN pass
        ELSE IF IsExcluded(request.name) THEN pass
        ELSE IF hres.rtype = "message"
        THEN LET processed == processToolMessage(hres.msg, limit)
             IN  [result |-> SingleResult(processed),
                  writes |-> processed.writes]
        ELSE LET update == hres.update
             IN  IF ~update.def \/ ~update.v.messages.def THEN pass
                 ELSE LET acc == ProcessMessages(update.v.messages.v, limit,
                                    [processedMessages |-> <<>>,
                                     hasLargeResults |-> FALSE,
                                     accumulatedFiles |->
                                         IF update.v.files.def
                                         THEN update.v.files.v ELSE EmptyMap,
                                     writes |-> <<>>])
                      IN  [result |->
                               IF acc.hasLargeResults
                               THEN Command(Update(Some(acc.processedMessages),
                                                   Some(acc.accumulatedFiles),
                                                   update.v.other))
                               ELSE hres,
                           writes |-> acc.writes]

--------------------------------------------------------------------------
\* SpecEvict: a tool call goes through wrapToolCall, the reducer applies the
\* update it returned, and the call may be retried with the same request.
TinyLimit == 2      \* a small configured toolTokenLimitBeforeEvict
MaxCalls == 2       \* the call and its retries

Limits == {0, TinyLimit, DefaultLimit}
Threshold(limit) == limit * NUM_CHARS_PER_TOKEN

Repeated(n, ch, len) ==
    [i \in 1..n |-> IF len = 0 THEN EmptyLine ELSE Line(ch, len)]

\* Result texts: one line just under, at and just over each threshold; two
\* lines that add up to a threshold; and texts of few and of many lines.
Texts ==
    {<<Line("x", Threshold(t) + d)>> : t \in Limits \ {0}, d \in {0 - 1, 0, 1}}
    \cup {<<Line("x", 1), Line("z", Threshold(t) - 2)>> : t \in Limits \ {0}}
    \cup {Repeated(n, "y", len) : n \in {2, 10, 11, 12}, len \in {0, 1500, 8000}}

RequestIds == {NoId, <<"r", ".", "1">>}
MessageIds == {<<"r", ".", "1">>, <<"m", "/", "2">>}
ToolNames == TOOLS_EXCLUDED_FROM_EVICTION \cup {"task", NoName}

EvictPaths == {EvictPath(sanitizeToolCallId(id)) : id \in MessageIds}
Backends ==
    [kind : {"state", "external"}, denies : SUBSET EvictPaths]

NotesPath == <<"notes">>
NotesData == FileData(<<Line("n", 3)>>, 0, 0)

SingleResults ==
    {MessageResult(ToolMessage(c, id, "task")) :
        c \in {TextContent(t) : t \in Texts} \cup {BlocksContent},
        id \in MessageIds}

\* The messages of batched results: two large results, a small one, and a
\* message that is not a tool message.
BatchMessages ==
    {ToolMessage(TextContent(Repeated(12, "y", 8000)), <<"r", ".", "1">>, "task"),
     ToolMessage(TextContent(<<Line("x", Threshold(DefaultLimit) + 1)>>),
                 <<"m", "/", "2">>, "task"),
     ToolMessage(TextContent(<<Line("x", 1)>>), <<"m", "/", "2">>, "task"),
     AIMessage(TextContent(Repeated(12, "y", 8000)))}

MessageLists == {<<>>} \cup {<<m>> : m \in BatchMessages}
                    \cup {<<m1, m2>> : m1 \in BatchMessages, m2 \in BatchMessages}

CommandResults ==
    {Command(Undefined)}
    \cup {Command(Update(Undefined, Undefined, Some("goto")))}
    \cup {Command(Update(Some(ms), fs, other)) :
            ms \in MessageLists,
            fs \in {Undefined, Some([k \in {NotesPath} |-> NotesData])},
            other \in {Some("goto")}}

HandlerResults == SingleResults \cup CommandResults

InitEvict ==
    /\ IdleBut("evict")
    /\ epc = "ready"
    /\ now = 1
    /\ calls = 0
    /\ request \in [name : ToolNames, id : RequestIds]
    /\ hres \in HandlerResults
    /\ toolTokenLimitBeforeEvict \in Limits
    /\ backend \in Backends
    /\ files = EmptyMap
    /\ store = EmptyMap
    /\ ret = hres
    /\ writes = <<>>
    /\ first = [ret |-> hres, writes |-> <<>>]

\* What the writes of a call leave in a backend that keeps content outside
\* the state.
RECURSIVE StoreAfter(_, _)
StoreAfter(st, ws) ==
    IF ws = <<>> THEN st
    ELSE StoreAfter(IF Head(ws).ok /\ backend.kind = "external"
                    THEN Put(st, Head(ws).path,
                             FileData(Head(ws).content, now, now))
                    ELSE st,
                    Tail(ws))

\* One invocation of wrapToolCall: the first call, or a retry of it.
WrapToolCall ==
    /\ \/ epc = "ready"
       \/ epc \in {"returned", "applied"} /\ calls < MaxCalls
    /\ LET r == wrapToolCall
       IN  /\ ret' = r.result
           /\ writes' = r.writes
           /\ store' = StoreAfter(store, r.writes)
           /\ first' = IF calls = 0
                       THEN [ret |-> r.result, writes |-> r.writes]
                       ELSE first
    /\ calls' = calls + 1
    /\ now' = now + 1
    /\ epc' = "returned"
    /\ UNCHANGED <<request, hres, toolTokenLimitBeforeEvict, backend, files>>
    /\ Frame("evict")

\* The runtime applies the returned Command's files update with the reducer.
ApplyUpdate ==
    /\ epc = "returned"
    /\ files' = IF ret.rtype = "command" /\ ret.update.def
                THEN fileDataReducer(Some(files), ret.update.v.files)
                ELSE files
    /\ epc' = "applied"
    /\ UNCHANGED <<request, hres, toolTokenLimitBeforeEvict, backend, store,
                   now, calls, ret, writes, first>>
    /\ Frame("evict")

NextEvict == WrapToolCall \/ ApplyUpdate

SpecEvict == InitEvict /\ [][NextEvict]_vars

--------------------------------------------------------------------------
\* SpecPreview: createContentPreview applied to texts of up to MaxPreviewLines
\* lines, with every headLines and tailLines up to MaxSampleLines.
MaxPreviewLines == 12
MaxSampleLines == 5

\* A text of n lines whose i-th line has base + i characters.
NumberedText(n, base) == [i \in 1..n |-> Line("c", base + i)]

\* Texts of short lines, all different, and texts whose lines reach and pass
\* the 1000 characters a preview keeps of a line.
PreviewContents ==
    {NumberedText(n, base) :
        n \in 1..MaxPreviewLines, base \in {0, PreviewLineChars - 2}}

InitPreview ==
    /\ IdleBut("preview")
    /\ pvpc = "input"
    /\ pvContent \in PreviewContents
    /\ pvHead \in 0..MaxSampleLines
    /\ pvTail \in 0..MaxSampleLines
    /\ pvOut = <<>>

CreateContentPreview ==
    /\ pvpc = "input"
    /\ pvOut' = createContentPreview(pvContent, pvHead, pvTail)
    /\ pvpc' = "done"
    /\ UNCHANGED <<pvContent, pvHead, pvTail>>
    /\ Frame("preview")

NextPreview == CreateContentPreview

SpecPreview == InitPreview /\ [][NextPreview]_vars

--------------------------------------------------------------------------
\* The read_file tool.
ReadNoticeFixedLen == 313   \* the notice line of READ_FILE_TRUNCATION_MSG, without {file_path}

\* lines.join("\n"), as the lines of the joined string.
JoinLines(lines) == IF lines = <<>> THEN <<EmptyLine>> ELSE lines

\* A tool that returns what the backend returned.
EnforceLineLimitNever(lines, limit) == lines

\* if (lines.length > limit) result = lines.slice(0, limit).join("\n")
EnforceLineLimit(lines, limit) ==
    IF Len(lines) > limit THEN JoinLines(Slice(lines, 0, limit)) ELSE lines

\* result.substring(0, k) of the string whose lines are `lines`.
RECURSIVE TextSubstring(_, _)
TextSubstring(lines, k) ==
    IF k <= 0 THEN <<EmptyLine>>
    ELSE IF Len(lines) = 1 \/ k <= LineLen(Head(lines))
    THEN <<Substring(Head(lines), k)>>
    ELSE <<Head(lines)>> \o TextSubstring(Tail(lines), k - LineLen(Head(lines)) - 1)

\* READ_FILE_TRUNCATION_MSG.replace("{file_path}", file_path): two newlines
\* and one line of notice.
ReadNoticeLine(pathLen) == Line("!", ReadNoticeFixedLen + pathLen)
TruncationMsgLen(pathLen) == 2 + ReadNoticeFixedLen + pathLen

\* The handler of read_file, from the backend's result on.
readFileTool(result, limit, tokenLimit, pathLen) ==
    LET limited == EnforceLineLimit(result, limit)
    IN  IF tokenLimit # 0 /\ TextLen(limited) >= NUM_CHARS_PER_TOKEN * tokenLimit
        THEN LET maxContentLength ==
                     NUM_CHARS_PER_TOKEN * tokenLimit - TruncationMsgLen(pathLen)
             IN  TextSubstring(limited, maxContentLength)
                     \o <<EmptyLine, ReadNoticeLine(pathLen)>>
        ELSE limited

\* SpecRead: read_file over backend results of up to MaxReadLines lines (a
\* backend may return more lines than asked) and limits up to MaxReadLimit.
MaxReadLines == 4
MaxReadLimit == 3

\* Lines: empty, short, and as long as the default threshold.
ReadLines == {EmptyLine, Line("a", 3), Line("b", Threshold(DefaultLimit))}

ReadResults == UNION {[1..n -> ReadLines] : n \in 1..MaxReadLines}

InitRead ==
    /\ IdleBut("read")
    /\ rdpc = "input"
    /\ rdResult \in ReadResults
    /\ rdLimit \in 0..MaxReadLimit
    /\ rdTokenLimit \in Limits
    /\ rdPathLen \in {2, EvictDirLen}
    /\ rdOut = <<>>

ReadFile ==
    /\ rdpc = "input"
    /\ rdOut' = readFileTool(rdResult, rdLimit, rdTokenLimit, rdPathLen)
    /\ rdpc' = "done"
    /\ UNCHANGED <<rdResult, rdLimit, rdTokenLimit, rdPathLen>>
    /\ Frame("read")

NextRead == ReadFile

SpecRead == InitRead /\ [][NextRead]_vars

--------------------------------------------------------------------------
\* The write_file and edit_file tools over the default backend, which is
\* built anew for every call from the state of the run.  In this part a
\* file's content is the sequence of its words, and old_string and
\* new_string are single words.

\* The number of occurrences of word w in content c.
RECURSIVE Occurrences(_, _)
Occurrences(c, w) ==
    IF c = <<>> THEN 0
    ELSE (IF Head(c) = w THEN 1 ELSE 0) + Occurrences(Tail(c), w)

ReplaceWord(c, old, new) == [i \in 1..Len(c) |-> IF c[i] = old THEN new ELSE c[i]]

\* backend.write(path, content) of the state backend: creates or replaces the
\* file and returns the FileUpdate of that path.
StateWrite(fs, path, content) ==
    [error |-> FALSE, filesUpdate |-> Some(Put(EmptyMap, path, FileData(content, 0, 0)))]

\* backend.edit(path, old, new, replaceAll) of the state backend: exact
\* replacement; a missing file, no match, and several matches without
\* replaceAll are errors.  It sees the state of the run and its arguments.
StateEdit(fs, path, old, new, replaceAll) ==
    IF path \notin DOMAIN fs
    THEN [error |-> TRUE, occurrences |-> 0, filesUpdate |-> Undefined]
    ELSE LET n == Occurrences(fs[path].content, old)
         IN  IF n = 0 \/ (n > 1 /\ ~replaceAll)
             THEN [error |-> TRUE, occurrences |-> n, filesUpdate |-> Undefined]
             ELSE [error |-> FALSE, occurrences |-> n,
                   filesUpdate |->
                       Some(Put(EmptyMap, path,
                                FileData(ReplaceWord(fs[path].content, old, new),
                                         fs[path].created_at, 1)))]

\* A backend whose content lives outside the state of the run (filesystem,
\* store): write and edit change its own storage and return no filesUpdate;
\* a path that leaves its root is refused with an error.
OutsidePath == <<"..", "x.txt">>

ExternalWrite(disk, path, content) ==
    IF path = OutsidePath
    THEN [result |-> [error |-> TRUE, occurrences |-> 0, filesUpdate |-> Undefined],
          disk |-> disk]
    ELSE [result |-> [error |-> FALSE, occurrences |-> 0, filesUpdate |-> Undefined],
          disk |-> Put(disk, path, FileData(content, 0, 0))]

ExternalEdit(disk, path, old, new, replaceAll) ==
    LET r == StateEdit(disk, path, old, new, replaceAll)
    IN  IF path = OutsidePath \/ r.error
        THEN [result |-> [error |-> TRUE, occurrences |-> r.occurrences,
                          filesUpdate |-> Undefined],
              disk |-> disk]
        ELSE [result |-> [error |-> FALSE, occurrences |-> r.occurrences,
                          filesUpdate |-> Undefined],
              disk |-> Put(disk, path, r.filesUpdate.v[path])]

\* resolvedBackend.write(file_path, content) and resolvedBackend.edit(...) of
\* the backend the run resolved: the result and the backend's own storage.
resolvedWrite(bk, fs, disk, path, content) ==
    IF bk = "state"
    THEN [result |-> StateWrite(fs, path, content) @@ [occurrences |-> 0], disk |-> disk]
    ELSE ExternalWrite(disk, path, content)

resolvedEdit(bk, fs, disk, path, old, new, replaceAll) ==
    IF bk = "state"
    THEN [result |-> StateEdit(fs, path, old, new, replaceAll), disk |-> disk]
    ELSE ExternalEdit(disk, path, old, new, replaceAll)

\* What a tool handler returns: the error text, a ToolMessage, or a Command
\* whose update carries files and messages.
ErrorText == [rtype |-> "text", error |-> TRUE, files |-> Undefined, messages |-> <<>>]
MessageOnly(message) ==
    [rtype |-> "message", error |-> FALSE, files |-> Undefined, messages |-> <<message>>]
FilesCommand(fs, message) ==
    [rtype |-> "command", error |-> FALSE, files |-> fs, messages |-> <<message>>]

\* A handler that sends the files in a Command of their own, without the
\* confirmation message.
WriteFileToolSplitsMessage(result, path) ==
    IF result.error THEN ErrorText
    ELSE IF result.filesUpdate.def
         THEN [rtype |-> "command", error |-> FALSE, files |-> result.filesUpdate,
               messages |-> <<>>]
         ELSE MessageOnly(ToolMessage(<<"Successfully wrote to", path>>, NoId, "write_file"))

\* The handler of write_file after the backend call: the error text, or the
\* Command whose update carries the backend's filesUpdate and the
\* confirmation, or the confirmation alone.
writeFileTool(result, path) ==
    IF result.error THEN ErrorText
    ELSE LET message == ToolMessage(<<"Successfully wrote to", path>>, NoId, "write_file")
         IN  IF result.filesUpdate.def
             THEN FilesCommand(result.filesUpdate, message)
             ELSE MessageOnly(message)

\* The handler of edit_file after the backend call.
editFileTool(result, path) ==
    IF result.error THEN ErrorText
    ELSE LET message == ToolMessage(<<"Successfully replaced", result.occurrences, path>>,
                                    NoId, "edit_file")
         IN  IF result.filesUpdate.def
             THEN FilesCommand(result.filesUpdate, message)
             ELSE MessageOnly(message)

\* SpecSession: up to MaxSessionCalls calls of the three tools in a row; the
\* runtime applies each returned update with the reducer.
MaxSessionCalls == 3

SessionPaths == {<<"a.txt">>, <<"b.txt">>}
Words == {"hello", "world"}
Contents == UNION {[1..n -> Words] : n \in 1..2}
SessionStores == PartialMaps(SessionPaths, {FileData(<<"hello">>, 0, 0)})

InitSession ==
    /\ IdleBut("session")
    /\ ssBackend \in {"state", "external"}
    /\ IF ssBackend = "state"
       THEN ssFiles \in SessionStores /\ ssDisk = EmptyMap
       ELSE ssFiles = EmptyMap /\ ssDisk \in SessionStores
    /\ ssReads = {}
    /\ ssCalls = 0
    /\ ssLast = [tool |-> "none"]

\* read_file returns text only: the state of the run is left as it is.
ReadFileCall(path) ==
    /\ ssCalls < MaxSessionCalls
    /\ ssReads' = ssReads \cup {path}
    /\ ssCalls' = ssCalls + 1
    /\ ssLast' = [tool |-> "read_file", path |-> path]
    /\ UNCHANGED <<ssFiles, ssBackend, ssDisk>>
    /\ Frame("session")

WriteFileCall(path, content) ==
    /\ ssCalls < MaxSessionCalls
    /\ LET b == resolvedWrite(ssBackend, ssFiles, ssDisk, path, content)
           r == writeFileTool(b.result, path)
       IN  /\ ssFiles' = IF r.files.def
                         THEN fileDataReducer(Some(ssFiles), r.files)
                         ELSE ssFiles
           /\ ssDisk' = b.disk
           /\ ssLast' = [tool |-> "write_file", path |-> path, error |-> r.error,
                         before |-> ssFiles, update |-> r.files,
                         result |-> b.result, ret |-> r]
    /\ ssCalls' = ssCalls + 1
    /\ UNCHANGED <<ssReads, ssBackend>>
    /\ Frame("session")

EditFileCall(path, old, new, replaceAll) ==
    /\ ssCalls < MaxSessionCalls
    /\ LET b == resolvedEdit(ssBackend, ssFiles, ssDisk, path, old, new, replaceAll)
           r == editFileTool(b.result, path)
       IN  /\ ssFiles' = IF r.files.def
                         THEN fileDataReducer(Some(ssFiles), r.files)
                         ELSE ssFiles
           /\ ssDisk' = b.disk
           /\ ssLast' = [tool |-> "edit_file", path |-> path, error |-> r.error,
                         before |-> ssFiles, update |-> r.files,
                         occurrences |-> b.result.occurrences,
                         wasRead |-> path \in ssReads,
                         result |-> b.result, ret |-> r]
    /\ ssCalls' = ssCalls + 1
    /\ UNCHANGED <<ssReads, ssBackend>>
    /\ Frame("session")

NextSession ==
    \/ \E path \in SessionPaths : ReadFileCall(path)
    \/ \E path \in SessionPaths \cup {OutsidePath}, content \in Contents :
           WriteFileCall(path, content)
    \/ \E path \in SessionPaths \cup {OutsidePath}, old \in Words, new \in Words,
          replaceAll \in BOOLEAN :
           EditFileCall(path, old, new, replaceAll)

SpecSession == InitSession /\ [][NextSession]_vars

--------------------------------------------------------------------------
\* The skills middleware.

\* The content of a SKILL.md file: a frontmatter with a name and a
\* description, or text without frontmatter.
Frontmatter(name, description) ==
    [kind |-> "frontmatter", name |-> name, description |-> description]
PlainText == [kind |-> "plain", name |-> "", description |-> ""]

SkillMetadata(name, description, path) ==
    [name |-> name, description |-> description, path |-> path]

\* parseSkillMetadataFromContent(content, skillPath, directoryName): null
\* without frontmatter or without name or description; a name that differs
\* from the directory is warned about and kept.
parseSkillMetadataFromContent(content, skillPath, directoryName) ==
    IF content.kind # "frontmatter" THEN Undefined
    ELSE IF content.name = "" \/ content.description = "" THEN Undefined
    ELSE Some(SkillMetadata(content.name, content.description, skillPath))

\* `${normalizedPath}${entry.name}/SKILL.md`
SkillMdPath(sourcePath, dir) == <<sourcePath, dir, "SKILL.md">>

\* for (const entry of entries) { ... } of listSkillsFromBackend: entries that
\* are no directory, whose file comes back with an error, or whose content
\* does not parse are passed over; a fetch that throws ends the listing.
RECURSIVE ScanEntries(_, _, _, _)
ScanEntries(sourcePath, entries, skills, ops) ==
    IF entries = <<>> THEN [thrown |-> FALSE, skills |-> skills, ops |-> ops]
    ELSE LET entry == Head(entries)
             rest == Tail(entries)
         IN  IF ~entry.is_dir THEN ScanEntries(sourcePath, rest, skills, ops)
             ELSE IF entry.file.res = "throws"
             THEN [thrown |-> TRUE, skills |-> <<>>, ops |-> ops + 1]
             ELSE IF entry.file.res = "error"
             THEN ScanEntries(sourcePath, rest, skills, ops + 1)
             ELSE LET metadata ==
                          parseSkillMetadataFromContent(
                              entry.file.content,
                              SkillMdPath(sourcePath, entry.dir), entry.dir)
                  IN  ScanEntries(sourcePath, rest,
                                  IF metadata.def THEN Append(skills, metadata.v)
                                                  ELSE skills,
                                  ops + 1)

\* listSkillsFromBackend(backend, sourcePath): the skills found, whether it
\* threw, and the backend calls it made.  A listing that throws gives [].
listSkillsFromBackend(bk, sourcePath) ==
    IF bk[sourcePath].ls = "throws"
    THEN [thrown |-> FALSE, skills |-> <<>>, ops |-> 1]
    ELSE ScanEntries(sourcePath, bk[sourcePath].entries, <<>>, 1)

\* A Map that keeps the value a key was first given.
MapSetKeepsFirst(m, skill) ==
    IF \E i \in 1..Len(m) : m[i].name = skill.name THEN m ELSE Append(m, skill)

\* allSkills.set(skill.name, skill): a Map as the sequence of its values, in
\* the order the keys were first inserted.
MapSet(m, skill) ==
    IF \E i \in 1..Len(m) : m[i].name = skill.name
    THEN [i \in 1..Len(m) |-> IF m[i].name = skill.name THEN skill ELSE m[i]]
    ELSE Append(m, skill)

RECURSIVE MapSetAll(_, _)
MapSetAll(m, skills) ==
    IF skills = <<>> THEN m ELSE MapSetAll(MapSet(m, Head(skills)), Tail(skills))

\* skillsMetadataReducer(current, update)
skillsMetadataReducer(current, update) ==
    IF ~update.def \/ Len(update.v) = 0
    THEN (IF current.def THEN current.v ELSE <<>>)
    ELSE IF ~current.def \/ Len(current.v) = 0 THEN update.v
    ELSE MapSetAll(MapSetAll(<<>>, current.v), update.v)

\* A loop body that lets the failure of a source escape.
SkillsSourceStepRethrows(acc, r) ==
    IF r.thrown
    THEN [all |-> acc.all, ops |-> acc.ops + r.ops, thrown |-> TRUE]
    ELSE [all |-> MapSetAll(acc.all, r.skills), ops |-> acc.ops + r.ops,
          thrown |-> FALSE]

\* try { skills = await listSkillsFromBackend(...); allSkills.set(...) }
\* catch { console.debug(...) }
SkillsSourceStep(acc, r) ==
    IF r.thrown
    THEN [all |-> acc.all, ops |-> acc.ops + r.ops, thrown |-> FALSE]
    ELSE [all |-> MapSetAll(acc.all, r.skills), ops |-> acc.ops + r.ops,
          thrown |-> FALSE]

\* for (const sourcePath of sources) { ... }
RECURSIVE LoadSkillSources(_, _, _)
LoadSkillSources(sources, bk, acc) ==
    IF sources = <<>> \/ acc.thrown THEN acc
    ELSE LoadSkillSources(Tail(sources), bk,
             SkillsSourceStep(acc, listSkillsFromBackend(bk, Head(sources))))

\* beforeAgent(state) of the skills middleware: the closure variable after
\* the call, the state update returned (Undefined for none), the backend
\* calls made, and whether it threw.
skillsBeforeAgent(loaded, state, bk, sources) ==
    IF Len(loaded) > 0
    THEN [loadedSkills |-> loaded, update |-> Undefined, ops |-> 0,
          thrown |-> FALSE, loading |-> FALSE]
    ELSE IF Len(state) > 0
    THEN [loadedSkills |-> state, update |-> Undefined, ops |-> 0,
          thrown |-> FALSE, loading |-> FALSE]
    ELSE LET acc == LoadSkillSources(sources, bk,
                        [all |-> <<>>, ops |-> 0, thrown |-> FALSE])
         IN  IF acc.thrown
             THEN [loadedSkills |-> loaded, update |-> Undefined,
                   ops |-> acc.ops, thrown |-> TRUE, loading |-> TRUE]
             ELSE [loadedSkills |-> acc.all, update |-> Some(acc.all),
                   ops |-> acc.ops, thrown |-> FALSE, loading |-> TRUE]

\* The skills wrapModelCall puts in the prompt.
RegisteredSkills(loaded, state) == IF Len(loaded) > 0 THEN loaded ELSE state

\* The skills part of SpecLoaders: two configured sources, each with up to
\* MaxEntries entries, and up to MaxBeforeAgent beforeAgent calls in a run.
MaxEntries == 2
MaxBeforeAgent == 2

SkillSources == <<"user", "project">>

FileResult(res, content) == [res |-> res, content |-> content]
Entry(dir, is_dir, file) == [dir |-> dir, is_dir |-> is_dir, file |-> file]

WebSkill == Entry("web", TRUE, FileResult("content", Frontmatter("web", "d")))

\* What a source can hold: two skills, a skill named like another under a
\* directory of its own, a plain file, a directory whose SKILL.md is missing,
\* one whose SKILL.md has no frontmatter, and one whose fetch throws.
SkillEntries ==
    { Entry("pdf", TRUE, FileResult("content", Frontmatter("pdf", "d"))),
      WebSkill,
      Entry("pdf2", TRUE, FileResult("content", Frontmatter("pdf", "d"))),
      Entry("notes", FALSE, FileResult("none", PlainText)),
      Entry("gone", TRUE, FileResult("error", PlainText)),
      Entry("draft", TRUE, FileResult("content", PlainText)),
      Entry("locked", TRUE, FileResult("throws", PlainText)) }

\* The entries of a listing have different names.
Listings ==
    {[ls |-> "throws", entries |-> <<>>]} \cup
    {[ls |-> "ok", entries |-> es] :
        es \in {e \in UNION {[1..n -> SkillEntries] : n \in 0..MaxEntries} :
                   \A i, j \in 1..Len(e) : i # j => e[i].dir # e[j].dir}}

SkillBackends == [{SkillSources[i] : i \in 1..Len(SkillSources)} -> Listings]

\* state.skillsMetadata at the start of a run: the default [], or what a
\* checkpoint holds.
RestoredSkills ==
    {<<>>, <<SkillMetadata("pdf", "d", SkillMdPath("user", "pdf"))>>}

InitSkills ==
    /\ IdleBut("skills")
    /\ skBackend \in SkillBackends
    /\ loadedSkills = <<>>
    /\ skState \in RestoredSkills
    /\ skCalls = 0
    /\ skLast = [call |-> "none"]
    /\ skRun = [n |-> 1, restored |-> skState]

\* One beforeAgent call; the runtime applies the returned update to
\* state.skillsMetadata with the reducer.
SkillsBeforeAgent ==
    /\ skLast.call # "off"
    /\ skCalls < MaxBeforeAgent
    /\ LET r == skillsBeforeAgent(loadedSkills, skState, skBackend, SkillSources)
       IN  /\ loadedSkills' = r.loadedSkills
           /\ skState' = IF r.update.def
                         THEN skillsMetadataReducer(Some(skState), r.update)
                         ELSE skState
           /\ skLast' = [call |-> "beforeAgent", update |-> r.update,
                         ops |-> r.ops, thrown |-> r.thrown,
                         loading |-> r.loading, at |-> skBackend,
                         registeredBefore |-> RegisteredSkills(loadedSkills, skState)]
    /\ skCalls' = skCalls + 1
    /\ UNCHANGED <<skBackend, skRun>>
    /\ Frame("skills")

\* A skill is written under a source while the run goes on.
AddSkill(sourcePath) ==
    /\ skCalls >= 1
    /\ skBackend[sourcePath].ls = "ok"
    /\ Len(skBackend[sourcePath].entries) < MaxEntries
    /\ \A i \in 1..Len(skBackend[sourcePath].entries) :
           skBackend[sourcePath].entries[i].dir # WebSkill.dir
    /\ skBackend' = [skBackend EXCEPT ![sourcePath].entries = Append(@, WebSkill)]
    /\ UNCHANGED <<loadedSkills, skState, skCalls, skLast, skRun>>
    /\ Frame("skills")

\* The agent is invoked again (another thread, or a branch) through the same
\* middleware instance: the run has a state of its own, from which its
\* backend is resolved; the closure of createSkillsMiddleware is the same.
MaxRuns == 2

EmptyListing == [ls |-> "ok", entries |-> <<>>]
NextRunBackends ==
    [{SkillSources[i] : i \in 1..Len(SkillSources)} ->
        {EmptyListing, [ls |-> "ok", entries |-> <<WebSkill>>]}]

StartRun(bk, state) ==
    /\ skLast.call # "off"
    /\ skCalls >= 1
    /\ skRun.n < MaxRuns
    /\ skBackend' = bk
    /\ skState' = state
    /\ skRun' = [n |-> skRun.n + 1, restored |-> state]
    /\ skCalls' = 0
    /\ skLast' = [call |-> "none"]
    /\ UNCHANGED loadedSkills
    /\ Frame("skills")

NextSkills ==
    \/ SkillsBeforeAgent
    \/ \E bk \in NextRunBackends, state \in RestoredSkills : StartRun(bk, state)
    \/ \E sourcePath \in {SkillSources[i] : i \in 1..Len(SkillSources)} :
           AddSkill(sourcePath)

--------------------------------------------------------------------------
\* The memory middleware.

\* loadMemoryFromBackend(backend, path): the content (Undefined for null), or
\* a throw.  Without downloadFiles, a read that starts with "Error:" gives
\* null; with it, file_not_found and a response without content give null,
\* and any other error or number of responses throws.
loadMemoryFromBackend(bk, path) ==
    LET f == bk.files[path]
    IN  IF f.res = "throws" THEN [thrown |-> TRUE, content |-> Undefined]
        ELSE IF ~bk.download
        THEN IF f.res = "content"
             THEN [thrown |-> FALSE, content |-> Some(f.content)]
             ELSE [thrown |-> FALSE, content |-> Undefined]
        ELSE IF f.res = "no_response" THEN [thrown |-> TRUE, content |-> Undefined]
        ELSE IF f.res = "file_not_found"
        THEN [thrown |-> FALSE, content |-> Undefined]
        ELSE IF f.res # "content" /\ f.res # "no_content"
        THEN [thrown |-> TRUE, content |-> Undefined]
        ELSE IF f.res = "content"
        THEN [thrown |-> FALSE, content |-> Some(f.content)]
        ELSE [thrown |-> FALSE, content |-> Undefined]

\* A loop body that lets the failure of a source escape.
MemorySourceStepRethrows(acc, path, r) ==
    IF r.thrown
    THEN [contents |-> acc.contents, log |-> Append(acc.log, "failed"),
          thrown |-> TRUE]
    ELSE IF r.content.def /\ r.content.v # ""
    THEN [contents |-> Put(acc.contents, path, r.content.v),
          log |-> Append(acc.log, "loaded"), thrown |-> FALSE]
    ELSE [contents |-> acc.contents, log |-> Append(acc.log, "skipped"),
          thrown |-> FALSE]

\* try { content = await loadMemoryFromBackend(...);
\*       if (content) contents[path] = content }
\* catch { console.debug(...) }: the log tells what each source came to.
MemorySourceStep(acc, path, r) ==
    IF r.thrown
    THEN [contents |-> acc.contents, log |-> Append(acc.log, "failed"),
          thrown |-> FALSE]
    ELSE IF r.content.def /\ r.content.v # ""
    THEN [contents |-> Put(acc.contents, path, r.content.v),
          log |-> Append(acc.log, "loaded"), thrown |-> FALSE]
    ELSE [contents |-> acc.contents, log |-> Append(acc.log, "skipped"),
          thrown |-> FALSE]

\* for (const path of sources) { ... }
RECURSIVE LoadMemorySources(_, _, _)
LoadMemorySources(sources, bk, acc) ==
    IF sources = <<>> \/ acc.thrown THEN acc
    ELSE LoadMemorySources(Tail(sources), bk,
             MemorySourceStep(acc, Head(sources),
                              loadMemoryFromBackend(bk, Head(sources))))

\* beforeAgent(state) of the memory middleware.
memoryBeforeAgent(state, bk, sources) ==
    IF state.def
    THEN [update |-> Undefined, thrown |-> FALSE, loading |-> FALSE, log |-> <<>>]
    ELSE LET acc == LoadMemorySources(sources, bk,
                        [contents |-> EmptyMap, log |-> <<>>, thrown |-> FALSE])
         IN  IF acc.thrown
             THEN [update |-> Undefined, thrown |-> TRUE, loading |-> TRUE,
                   log |-> acc.log]
             ELSE [update |-> Some(acc.contents), thrown |-> FALSE,
                   loading |-> TRUE, log |-> acc.log]

MemorySection(path, content) == [path |-> path, content |-> content]

\* for (const path of sources) if (contents[path]) sections.push(...)
RECURSIVE MemorySections(_, _)
MemorySections(contents, sources) ==
    IF sources = <<>> THEN <<>>
    ELSE (IF Head(sources) \in DOMAIN contents /\ contents[Head(sources)] # ""
          THEN <<MemorySection(Head(sources), contents[Head(sources)])>>
          ELSE <<>>)
         \o MemorySections(contents, Tail(sources))

\* A format in which a later source takes the place of the earlier ones.
FormatMemoryContentsLastOnly(contents, sources) ==
    LET sections == MemorySections(contents, sources)
    IN  IF sections = <<>> THEN [kind |-> "none", sections |-> <<>>]
        ELSE [kind |-> "sections", sections |-> <<sections[Len(sections)]>>]

\* formatMemoryContents(contents, sources): "(No memory loaded)", or the
\* sections `${path}\n${contents[path]}` joined by an empty line.
formatMemoryContents(contents, sources) ==
    IF DOMAIN contents = {} THEN [kind |-> "none", sections |-> <<>>]
    ELSE LET sections == MemorySections(contents, sources)
         IN  IF sections = <<>> THEN [kind |-> "none", sections |-> <<>>]
             ELSE [kind |-> "sections", sections |-> sections]

\* The memory part of SpecLoaders: up to MaxMemorySources configured sources
\* over two paths.
MaxMemorySources == 2

MemoryPaths == {"~/AGENTS.md", "./AGENTS.md"}

MemorySourceLists == UNION {[1..n -> MemoryPaths] : n \in 1..MaxMemorySources}

MemoryText(path) == IF path = "~/AGENTS.md" THEN "user notes" ELSE "project notes"

\* What the backend gives for a path: its text, an empty file, an error it
\* reports, a response without content, no response, or a throw (the last
\* but two only through downloadFiles).
MemoryFiles(path) ==
    {FileResult("content", MemoryText(path)), FileResult("content", "")} \cup
    {FileResult(res, "") :
        res \in {"file_not_found", "permission_denied", "no_content",
                 "no_response", "throws"}}

MemoryFileMaps(d) ==
    {g \in [MemoryPaths -> UNION {MemoryFiles(p) : p \in MemoryPaths}] :
        \A p \in MemoryPaths :
            /\ g[p] \in MemoryFiles(p)
            /\ ~d => g[p].res \notin {"no_content", "no_response"}}

MemoryBackends ==
    UNION {{[download |-> d, files |-> f] : f \in MemoryFileMaps(d)} :
              d \in BOOLEAN}

InitMemory ==
    /\ IdleBut("memory")
    /\ memBackend \in MemoryBackends
    /\ memSources \in MemorySourceLists
    /\ memState \in {Undefined, Some(Put(EmptyMap, "~/AGENTS.md", "old notes"))}
    /\ memCalls = 0
    /\ memLoad = [done |-> FALSE, thrown |-> FALSE, log |-> <<>>]
    /\ memPrompt = [kind |-> "none yet", sections |-> <<>>]

\* One beforeAgent call; the returned update becomes state.memoryContents.
MemoryBeforeAgent ==
    /\ memPrompt.kind # "off"
    /\ memCalls < MaxBeforeAgent
    /\ LET r == memoryBeforeAgent(memState, memBackend, memSources)
       IN  /\ memState' = IF r.update.def THEN r.update ELSE memState
           /\ memLoad' = IF r.loading
                         THEN [done |-> TRUE, thrown |-> r.thrown, log |-> r.log]
                         ELSE memLoad
    /\ memCalls' = memCalls + 1
    /\ UNCHANGED <<memBackend, memSources, memPrompt>>
    /\ Frame("memory")

\* wrapModelCall: request.state?.memoryContents || {} is formatted into the
\* system prompt.
MemoryWrapModelCall ==
    /\ memCalls >= 1
    /\ memPrompt' = formatMemoryContents(
                        IF memState.def THEN memState.v ELSE EmptyMap, memSources)
    /\ UNCHANGED <<memBackend, memSources, memState, memCalls, memLoad>>
    /\ Frame("memory")

NextMemory == MemoryBeforeAgent \/ MemoryWrapModelCall

--------------------------------------------------------------------------
\* SpecLoaders: a run with the skills middleware, or a run with the memory
\* middleware.
InitLoaders == InitSkills \/ InitMemory

NextLoaders == NextSkills \/ NextMemory

SpecLoaders == InitLoaders /\ [][NextLoaders]_vars

--------------------------------------------------------------------------
\* The execute tool.

\* getBackend(backend, stateAndStore): the instance, or what the factory
\* makes of the state.
getBackend(bk, state) ==
    IF bk.kind = "factory" THEN [sandbox |-> state \in bk.sandboxIn]
    ELSE [sandbox |-> bk.sandbox]

\* isSandboxBackend(backend): the backend has execute.
isSandboxBackend(resolved) == resolved.sandbox

\* The names of allTools.
AllToolNames ==
    {"ls", "read_file", "write_file", "edit_file", "glob", "grep", "execute"}

\* wrapModelCall: the tools handed on to the model, and whether the
\* execution section is added to the system prompt.
FilterTools(bk, state, tools) ==
    LET supportsExecution == isSandboxBackend(getBackend(bk, state))
    IN  [tools |-> IF ~supportsExecution THEN tools \ {"execute"} ELSE tools,
         executionPrompt |-> supportsExecution]

\* An execute that goes to the backend without looking at what it can do.
ExecuteToolUnchecked(bk, state, command) ==
    IF isSandboxBackend(getBackend(bk, state))
    THEN [kind |-> "output", thrown |-> FALSE, ran |-> <<command>>]
    ELSE [kind |-> "none", thrown |-> TRUE, ran |-> <<>>]

\* The handler of execute: the explanatory error text for a backend that
\* is no sandbox, the formatted output of resolvedBackend.execute(command)
\* otherwise.
executeTool(bk, state, command) ==
    IF ~isSandboxBackend(getBackend(bk, state))
    THEN [kind |-> "error", thrown |-> FALSE, ran |-> <<>>]
    ELSE [kind |-> "output", thrown |-> FALSE, ran |-> <<command>>]

\* SpecExecute: model calls and execute calls, up to MaxExecuteCalls, over a
\* backend instance or a factory whose backend depends on the state.
MaxExecuteCalls == 3

RunStates == {"s1", "s2"}
ExecuteBackends ==
    {[kind |-> "instance", sandbox |-> b, sandboxIn |-> {}] : b \in BOOLEAN} \cup
    {[kind |-> "factory", sandbox |-> FALSE, sandboxIn |-> S] : S \in SUBSET RunStates}
Commands == {"ls -la", "make"}

InitExecute ==
    /\ IdleBut("execute")
    /\ exBackend \in ExecuteBackends
    /\ exState \in RunStates
    /\ exTools \in {AllToolNames, AllToolNames \cup {"task"}}
    /\ exRan = <<>>
    /\ exCalls = 0
    /\ exLast = [call |-> "none"]

ExecuteWrapModelCall ==
    /\ exCalls < MaxExecuteCalls
    /\ LET r == FilterTools(exBackend, exState, exTools)
       IN  exLast' = [call |-> "wrapModelCall", state |-> exState,
                      offered |-> r.tools,
                      executionPrompt |-> r.executionPrompt]
    /\ exCalls' = exCalls + 1
    /\ UNCHANGED <<exBackend, exState, exTools, exRan>>
    /\ Frame("execute")

ExecuteCall(command) ==
    /\ exCalls < MaxExecuteCalls
    /\ LET r == executeTool(exBackend, exState, command)
       IN  /\ exRan' = exRan \o r.ran
           /\ exLast' = [call |-> "execute", state |-> exState, kind |-> r.kind,
                         thrown |-> r.thrown, ranBefore |-> exRan]
    /\ exCalls' = exCalls + 1
    /\ UNCHANGED <<exBackend, exState, exTools>>
    /\ Frame("execute")

\* The state of the run moves on between calls.
StateMoves(state) ==
    /\ exLast.call \notin {"off", "none"}
    /\ state # exState
    /\ exState' = state
    /\ UNCHANGED <<exBackend, exTools, exRan, exCalls, exLast>>
    /\ Frame("execute")

NextExecute ==
    \/ ExecuteWrapModelCall
    \/ \E command \in Commands : ExecuteCall(command)
    \/ \E state \in RunStates : StateMoves(state)

SpecExecute == InitExecute /\ [][NextExecute]_vars

--------------------------------------------------------------------------
\* The grep tool.  The tool's text is modelled as the sequence of its lines;
\* a header pushed as "\n<path>:" is an empty line and the header line.
OutLine(kind, path, line, text) ==
    [kind |-> kind, path |-> path, line |-> line, text |-> text]
BlankLine == OutLine("blank", "", 0, "")
HeaderLine(path) == OutLine("header", path, 0, "")
MatchLine(match) == OutLine("match", "", match.line, match.text)

\* for (const match of result) { ... }: a header whenever the path differs
\* from the path of the match before.
RECURSIVE FormatMatches(_, _, _)
FormatMatches(result, currentFile, lines) ==
    IF result = <<>> THEN lines
    ELSE LET match == Head(result)
         IN  IF match.path # currentFile
             THEN FormatMatches(Tail(result), match.path,
                                lines \o <<BlankLine, HeaderLine(match.path),
                                           MatchLine(match)>>)
             ELSE FormatMatches(Tail(result), currentFile,
                                lines \o <<MatchLine(match)>>)

\* The handler of grep after resolvedBackend.grepRaw(pattern, path, glob).
grepTool(result) ==
    IF result.kind = "error" THEN <<OutLine("error", "", 0, "")>>
    ELSE IF Len(result.matches) = 0 THEN <<OutLine("nomatch", "", 0, "")>>
    ELSE FormatMatches(result.matches, "", <<>>)

\* SpecGrep: one call of the tool on every result of up to MaxMatches
\* matches in any order.
MaxMatches == 3

GrepPaths == {"/a.ts", "/b.ts"}
GrepMatches == {[path |-> p, line |-> n, text |-> "x"] : p \in GrepPaths, n \in 1..2}
GrepResults ==
    {[kind |-> "error", matches |-> <<>>]}
    \cup {[kind |-> "matches", matches |-> ms] :
            ms \in UNION {[1..n -> GrepMatches] : n \in 0..MaxMatches}}

InitGrep ==
    /\ IdleBut("grep")
    /\ gppc = "input"
    /\ gpResult \in GrepResults
    /\ gpOut = <<>>

Grep ==
    /\ gppc = "input"
    /\ gpOut' = grepTool(gpResult)
    /\ gppc' = "done"
    /\ UNCHANGED gpResult
    /\ Frame("grep")

NextGrep == Grep

SpecGrep == InitGrep /\ [][NextGrep]_vars

--------------------------------------------------------------------------
\* SpecSkillsReducer: skillsMetadataReducer on every pair of optional arrays
\* of up to MaxSkills skills, duplicates of a name included.
MaxSkills == 2

ReducerSkills ==
    {SkillMetadata(n, "d", <<src, n>>) : n \in {"pdf", "web"}, src \in {"user", "project"}}
SkillArrays == UNION {[1..n -> ReducerSkills] : n \in 0..MaxSkills}

InitSkillsReducer ==
    /\ IdleBut("skred")
    /\ srpc = "input"
    /\ srCurrent \in Optional(SkillArrays)
    /\ srUpdate \in Optional(SkillArrays)
    /\ srOut = <<>>

ReduceSkills ==
    /\ srpc = "input"
    /\ srOut' = skillsMetadataReducer(srCurrent, srUpdate)
    /\ srpc' = "done"
    /\ UNCHANGED <<srCurrent, srUpdate>>
    /\ Frame("skred")

NextSkillsReducer == ReduceSkills

SpecSkillsReducer == InitSkillsReducer /\ [][NextSkillsReducer]_vars

--------------------------------------------------------------------------
\* The filesystem routes of the web-ui server.  A name is the sequence of its
\* characters, a path the sequence of its names, and a request path says
\* whether it is absolute.
DotName == <<".">>
DotDotName == <<".", ".">>
Slash == "/"

RequestPath(abs, segs) == [abs |-> abs, segs |-> segs]

\* The characters of the path string.
RECURSIVE PathString(_)
PathString(p) ==
    IF p = <<>> THEN <<>> ELSE <<Slash>> \o Head(p) \o PathString(Tail(p))

\* str.startsWith(prefix)
StartsWith(str, prefix) ==
    Len(str) >= Len(prefix) /\ SubSeq(str, 1, Len(prefix)) = prefix

\* The normalisation of path.resolve: "." is dropped, ".." drops the name
\* before it (nothing at the top).
RECURSIVE NormalizeOnto(_, _)
NormalizeOnto(stack, segs) ==
    IF segs = <<>> THEN stack
    ELSE LET s == Head(segs)
         IN  NormalizeOnto(
                 IF s = DotName THEN stack
                 ELSE IF s = DotDotName
                      THEN (IF stack = <<>> THEN stack
                            ELSE SubSeq(stack, 1, Len(stack) - 1))
                      ELSE Append(stack, s),
                 Tail(segs))

\* path.resolve(from, to)
pathResolve(from, to) ==
    IF to.abs THEN NormalizeOnto(<<>>, to.segs) ELSE NormalizeOnto(from, to.segs)

\* path.dirname(p)
pathDirname(p) == IF p = <<>> THEN p ELSE SubSeq(p, 1, Len(p) - 1)

WORKSPACE_PATH == << <<"d">>, <<"w">> >>

\* resolveWorkspacePath(relativePath): null (Undefined) when the resolved
\* string does not start with the string of the workspace path.
resolveWorkspacePath(relativePath) ==
    LET resolved == pathResolve(WORKSPACE_PATH, relativePath)
    IN  IF ~StartsWith(PathString(resolved), PathString(WORKSPACE_PATH))
        THEN Undefined
        ELSE Some(resolved)

\* !relativePath: the empty string
IsEmptyPath(rel) == ~rel.abs /\ rel.segs = <<>>

\* The file system calls.
IsPrefixPath(p, q) == Len(p) <= Len(q) /\ SubSeq(q, 1, Len(p)) = p
PathPrefixes(p) == {SubSeq(p, 1, n) : n \in 0..Len(p)}
existsSync(fs, p) == p \in DOMAIN fs
IsDirectory(fs, p) == p \in DOMAIN fs /\ fs[p] = "dir"
ChildrenOf(fs, p) == {q \in DOMAIN fs : Len(q) = Len(p) + 1 /\ IsPrefixPath(p, q)}
\* fs.mkdirSync(p, {recursive: true}): throws when a name on the way is a file.
MkdirThrows(fs, p) == \E q \in PathPrefixes(p) : q \in DOMAIN fs /\ fs[q] = "file"
mkdirSync(fs, p) ==
    [q \in DOMAIN fs \cup PathPrefixes(p) |-> IF q \in DOMAIN fs THEN fs[q] ELSE "dir"]
\* fs.rmdirSync(p, {recursive: true}) and fs.unlinkSync(p)
removeSync(fs, p) == [q \in {r \in DOMAIN fs : ~IsPrefixPath(p, r)} |-> fs[q]]

\* What a handler answers: the status, the paths its file system calls were
\* given or changed, and the file system after it.
Answer(status, touched, fs) == [status |-> status, touched |-> touched, fs |-> fs]

\* GET /list
listRoute(fs, relativePath) ==
    LET rel == IF IsEmptyPath(relativePath) THEN RequestPath(FALSE, <<DotName>>)
               ELSE relativePath
        dirPath == resolveWorkspacePath(rel)
    IN  IF ~dirPath.def THEN Answer(403, {}, fs)
        ELSE IF ~existsSync(fs, dirPath.v) THEN Answer(404, {dirPath.v}, fs)
        ELSE IF ~IsDirectory(fs, dirPath.v) THEN Answer(500, {dirPath.v}, fs)
        ELSE Answer(200, {dirPath.v} \cup ChildrenOf(fs, dirPath.v), fs)

\* GET /content
contentRoute(fs, relativePath) ==
    IF IsEmptyPath(relativePath) THEN Answer(400, {}, fs)
    ELSE LET filePath == resolveWorkspacePath(relativePath)
         IN  IF ~filePath.def THEN Answer(403, {}, fs)
             ELSE IF ~existsSync(fs, filePath.v) THEN Answer(404, {filePath.v}, fs)
             ELSE IF IsDirectory(fs, filePath.v) THEN Answer(400, {filePath.v}, fs)
             ELSE Answer(200, {filePath.v}, fs)

\* POST /write
writeRoute(fs, relativePath) ==
    LET filePath == resolveWorkspacePath(relativePath)
    IN  IF ~filePath.def THEN Answer(403, {}, fs)
        ELSE LET parentDir == pathDirname(filePath.v)
                 made == IF existsSync(fs, parentDir) THEN fs ELSE mkdirSync(fs, parentDir)
             IN  IF ~existsSync(fs, parentDir) /\ MkdirThrows(fs, parentDir)
                 THEN Answer(500, {parentDir}, fs)
                 ELSE IF IsDirectory(made, filePath.v) \/ ~IsDirectory(made, parentDir)
                 THEN Answer(500, {parentDir, filePath.v} \cup (DOMAIN made \ DOMAIN fs),
                             made)
                 ELSE Answer(200, {parentDir, filePath.v} \cup (DOMAIN made \ DOMAIN fs),
                             Put(made, filePath.v, "file"))

\* DELETE /delete
deleteRoute(fs, relativePath) ==
    IF IsEmptyPath(relativePath) THEN Answer(400, {}, fs)
    ELSE LET filePath == resolveWorkspacePath(relativePath)
         IN  IF ~filePath.def THEN Answer(403, {}, fs)
             ELSE IF ~existsSync(fs, filePath.v) THEN Answer(404, {filePath.v}, fs)
             ELSE Answer(200, {q \in DOMAIN fs : IsPrefixPath(filePath.v, q)},
                         removeSync(fs, filePath.v))

\* POST /mkdir
mkdirRoute(fs, relativePath) ==
    LET dirPath == resolveWorkspacePath(relativePath)
    IN  IF ~dirPath.def THEN Answer(403, {}, fs)
        ELSE IF existsSync(fs, dirPath.v) THEN Answer(200, {dirPath.v}, fs)
        ELSE IF MkdirThrows(fs, dirPath.v) THEN Answer(500, {dirPath.v}, fs)
        ELSE Answer(200, {dirPath.v} \cup (PathPrefixes(dirPath.v) \ DOMAIN fs),
                    mkdirSync(fs, dirPath.v))

\* SpecRoutes: up to MaxRequests requests against a disk that holds the
\* workspace /d/w with a file, and beside it the directory /d/w2 with a file.
MaxRequests == 2

RequestPaths ==
    { RequestPath(FALSE, <<>>),
      RequestPath(FALSE, <<DotName>>),
      RequestPath(FALSE, << <<"a">> >>),
      RequestPath(FALSE, << <<"b">>, <<"c">> >>),
      RequestPath(FALSE, << <<"a">>, <<"c">> >>),
      RequestPath(FALSE, <<DotDotName>>),
      RequestPath(FALSE, <<DotDotName, DotDotName, <<"e">> >>),
      RequestPath(FALSE, <<DotDotName, <<"w", "2">>, <<"a">> >>),
      RequestPath(FALSE, <<DotDotName, <<"w", "2">>, <<"n">> >>),
      RequestPath(FALSE, << <<"b">>, DotDotName, <<"a">> >>),
      RequestPath(TRUE, << <<"d">>, <<"w">>, <<"a">> >>),
      RequestPath(TRUE, << <<"d">>, <<"w", "2">> >>),
      RequestPath(TRUE, << <<"e">> >>) }

InitDisk ==
    [p \in { <<>>, << <<"d">> >>, WORKSPACE_PATH, Append(WORKSPACE_PATH, <<"a">>),
             << <<"d">>, <<"w", "2">> >>, << <<"d">>, <<"w", "2">>, <<"a">> >>,
             << <<"e">> >> } |->
        IF p # <<>> /\ p[Len(p)] \in {<<"a">>, <<"e">>} THEN "file" ELSE "dir"]

InitRoutes ==
    /\ IdleBut("routes")
    /\ rtFs = InitDisk
    /\ rtCount = 0
    /\ rtLast = [route |-> "none"]

Handle(route, relativePath, answer) ==
    /\ rtLast.route # "off"
    /\ rtCount < MaxRequests
    /\ rtFs' = answer.fs
    /\ rtCount' = rtCount + 1
    /\ rtLast' = [route |-> route, status |-> answer.status,
                  resolved |-> pathResolve(WORKSPACE_PATH, relativePath),
                  touched |-> answer.touched, before |-> rtFs]
    /\ Frame("routes")

ListRequest(relativePath) == Handle("list", relativePath, listRoute(rtFs, relativePath))
ContentRequest(relativePath) ==
    Handle("content", relativePath, contentRoute(rtFs, relativePath))
WriteRequest(relativePath) == Handle("write", relativePath, writeRoute(rtFs, relativePath))
DeleteRequest(relativePath) ==
    Handle("delete", relativePath, deleteRoute(rtFs, relativePath))
MkdirRequest(relativePath) == Handle("mkdir", relativePath, mkdirRoute(rtFs, relativePath))

NextRoutes ==
    \/ \E relativePath \in RequestPaths : ListRequest(relativePath)
    \/ \E relativePath \in RequestPaths : ContentRequest(relativePath)
    \/ \E relativePath \in RequestPaths : WriteRequest(relativePath)
    \/ \E relativePath \in RequestPaths : DeleteRequest(relativePath)
    \/ \E relativePath \in RequestPaths : MkdirRequest(relativePath)

SpecRoutes == InitRoutes /\ [][NextRoutes]_vars

--------------------------------------------------------------------------
\* streamResearch of the web-ui server: the session file, the abort signal
\* and the places where the function waits.
MAX_READ_FILES == 3
TodoCount == 3

\* await delay(..); if (abortSignal.aborted) throw new Error("AbortError")
\* outside every try block: the exception leaves streamResearch.
AbortCheck(next) ==
    /\ rsPc' = IF rsAborted THEN "thrown" ELSE next
    /\ UNCHANGED <<rsIn, rsAborted, rsSession>>

\* loadSession, session.status = "running", saveSession(session)
BeginResearch ==
    /\ rsPc = "begin"
    /\ rsSession' = "running"
    /\ rsPc' = "init1"
    /\ UNCHANGED <<rsIn, rsAborted, rsLeft, rsRelevant>>
    /\ Frame("research")

\* The two waits of the initialisation phase and the two before the search.
PhaseStep ==
    /\ rsPc \in {"init1", "init2", "search1", "search2"}
    /\ AbortCheck(CASE rsPc = "init1" -> "init2"
                    [] rsPc = "init2" -> "search1"
                    [] rsPc = "search1" -> "search2"
                    [] OTHER -> "grep")
    /\ UNCHANGED <<rsLeft, rsRelevant>>
    /\ Frame("research")

\* if (searchPattern) { try { grepRaw ... } catch {} }
GrepKnowledge ==
    /\ rsPc = "grep"
    /\ IF rsIn.pattern /\ rsIn.grep.res = "ok" /\ rsIn.grep.files > 0
       THEN rsPc' = "grepRead" /\ rsLeft' = rsIn.grep.files
       ELSE rsPc' = "list" /\ rsLeft' = 0
    /\ UNCHANGED <<rsIn, rsAborted, rsSession, rsRelevant>>
    /\ Frame("research")

\* One round of a file loop: the abort is thrown inside the try block and
\* caught by its catch, which ends the loop; otherwise the file is read.
ReadLoop(pc, next) ==
    /\ rsPc = pc
    /\ IF rsAborted
       THEN rsPc' = next /\ rsLeft' = 0 /\ UNCHANGED rsRelevant
       ELSE /\ \E ok \in BOOLEAN : rsRelevant' = rsRelevant + (IF ok THEN 1 ELSE 0)
            /\ rsLeft' = rsLeft - 1
            /\ rsPc' = IF rsLeft = 1 THEN next ELSE pc
    /\ UNCHANGED <<rsIn, rsAborted, rsSession>>
    /\ Frame("research")

ReadMatched == ReadLoop("grepRead", "list")

\* if (relevantFiles.length === 0) { try { lsInfo ... } catch {} }
ListKnowledge ==
    /\ rsPc = "list"
    /\ IF rsRelevant = 0 /\ rsIn.ls.res = "ok" /\ rsIn.ls.files > 0
       THEN rsPc' = "listRead" /\ rsLeft' = rsIn.ls.files
       ELSE rsPc' = "analysis" /\ rsLeft' = 0
    /\ UNCHANGED <<rsIn, rsAborted, rsSession, rsRelevant>>
    /\ Frame("research")

ReadListed == ReadLoop("listRead", "analysis")

\* The wait of the analysis phase, the todo loop, the wait of the report.
Analysis ==
    /\ rsPc = "analysis"
    /\ AbortCheck("todos")
    /\ rsLeft' = TodoCount
    /\ UNCHANGED rsRelevant
    /\ Frame("research")

TodoStep ==
    /\ rsPc = "todos"
    /\ AbortCheck(IF rsLeft = 1 THEN "report" ELSE "todos")
    /\ rsLeft' = rsLeft - 1
    /\ UNCHANGED rsRelevant
    /\ Frame("research")

Report ==
    /\ rsPc = "report"
    /\ AbortCheck("save")
    /\ UNCHANGED <<rsLeft, rsRelevant>>
    /\ Frame("research")

\* session.status = "completed"; saveSession(session); onChunk({type: "done"})
CompleteResearch ==
    /\ rsPc = "save"
    /\ rsSession' = "completed"
    /\ rsPc' = "returned"
    /\ UNCHANGED <<rsIn, rsAborted, rsLeft, rsRelevant>>
    /\ Frame("research")

\* res.on("close", () => abortController.abort())
AbortStream ==
    /\ rsPc \notin {"off", "begin", "returned", "thrown"}
    /\ ~rsAborted
    /\ rsAborted' = TRUE
    /\ UNCHANGED <<rsPc, rsIn, rsSession, rsLeft, rsRelevant>>
    /\ Frame("research")

\* SpecResearch: one call of streamResearch, for every stored session and
\* every answer of the knowledge backend with up to MAX_READ_FILES files
\* (more are cut by slice(0, 3)), the client closing the stream at any moment.
KnowledgeAnswers ==
    {[res |-> "throws", files |-> 0]}
    \cup {[res |-> "ok", files |-> n] : n \in 0..MAX_READ_FILES}

InitResearch ==
    /\ IdleBut("research")
    /\ rsPc = "begin"
    /\ rsIn \in [prior : {"none", "running", "completed", "error"},
                 pattern : BOOLEAN, grep : KnowledgeAnswers, ls : KnowledgeAnswers]
    /\ rsAborted = FALSE
    /\ rsSession = rsIn.prior
    /\ rsLeft = 0
    /\ rsRelevant = 0

NextResearch ==
    \/ BeginResearch
    \/ PhaseStep
    \/ GrepKnowledge
    \/ ReadMatched
    \/ ListKnowledge
    \/ ReadListed
    \/ Analysis
    \/ TodoStep
    \/ Report
    \/ CompleteResearch
    \/ AbortStream

SpecResearch == InitResearch /\ [][NextResearch]_vars

--------------------------------------------------------------------------
\* The useRecentInputs hook.  An input is its text without the surrounding
\* white space (0 for no text at all) and whether white space surrounds it.
MAX_ITEMS == 10

Input(text, pad) == [text |-> text, pad |-> pad]

\* input.trim()
Trim(input) == Input(input.text, FALSE)

\* prev.filter((item) => item !== x)
RECURSIVE FilterOut(_, _)
FilterOut(prev, x) ==
    IF prev = <<>> THEN <<>>
    ELSE IF Head(prev) # x THEN <<Head(prev)>> \o FilterOut(Tail(prev), x)
    ELSE FilterOut(Tail(prev), x)

\* array.slice(0, n)
SliceTo(array, n) == SubSeq(array, 1, IF Len(array) < n THEN Len(array) ELSE n)

\* An updater that puts the input in front of everything that was there.
AddRecentInputKeepsOld(prev, input) ==
    IF Trim(input).text = 0 THEN Undefined
    ELSE Some(SliceTo(<<Trim(input)>> \o prev, MAX_ITEMS))

\* addRecentInput(input) on the list prev: Undefined when the call returns
\* at once, else the list that is set and stored.
addRecentInput(prev, input) ==
    IF Trim(input).text = 0 THEN Undefined
    ELSE LET filtered == FilterOut(prev, Trim(input))
         IN  Some(SliceTo(<<Trim(input)>> \o filtered, MAX_ITEMS))

\* SpecRecent: the hook mounts on what an earlier visit stored, then up to
\* MaxRecentCalls calls of addRecentInput and clearRecentInputs.
MaxRecentCalls == 3

\* The list after the texts 1..n were added in turn.
Added(n) == [i \in 1..n |-> Input(n + 1 - i, FALSE)]

StoredLists ==
    {Undefined, Some(Added(1)), Some(Added(MAX_ITEMS - 1)), Some(Added(MAX_ITEMS))}

RecentInputValues ==
    {Input(0, FALSE), Input(0, TRUE), Input(1, FALSE), Input(1, TRUE),
     Input(MAX_ITEMS, FALSE), Input(MAX_ITEMS + 1, FALSE), Input(MAX_ITEMS + 1, TRUE),
     Input(MAX_ITEMS + 2, FALSE)}

InitRecent ==
    /\ IdleBut("recent")
    /\ recentInputs = <<>>
    /\ riStorage \in StoredLists
    /\ riMounted = FALSE
    /\ riCalls = 0
    /\ riLast = [op |-> "none"]

\* useEffect(() => { ... }, []): the stored list, if any, becomes the state.
MountRecent ==
    /\ riLast.op = "none" /\ ~riMounted
    /\ riMounted' = TRUE
    /\ recentInputs' = IF riStorage.def THEN riStorage.v ELSE recentInputs
    /\ UNCHANGED <<riStorage, riCalls, riLast>>
    /\ Frame("recent")

AddRecentInput(input) ==
    /\ riMounted /\ riCalls < MaxRecentCalls
    /\ LET updated == addRecentInput(recentInputs, input)
       IN  /\ recentInputs' = IF updated.def THEN updated.v ELSE recentInputs
           /\ riStorage' = IF updated.def THEN updated ELSE riStorage
    /\ riCalls' = riCalls + 1
    /\ riLast' = [op |-> "add", input |-> input, before |-> recentInputs]
    /\ UNCHANGED riMounted
    /\ Frame("recent")

ClearRecentInputs ==
    /\ riMounted /\ riCalls < MaxRecentCalls
    /\ riStorage' = Undefined
    /\ recentInputs' = <<>>
    /\ riCalls' = riCalls + 1
    /\ riLast' = [op |-> "clear", input |-> Input(0, FALSE), before |-> recentInputs]
    /\ UNCHANGED riMounted
    /\ Frame("recent")

NextRecent ==
    \/ MountRecent
    \/ \E input \in RecentInputValues : AddRecentInput(input)
    \/ ClearRecentInputs

SpecRecent == InitRecent /\ [][NextRecent]_vars

--------------------------------------------------------------------------
\* Claims about the reducer (SpecReducer).

\* C1: for every FilesMap C and FileUpdate U, fileDataReducer(C, U) has no
\* entry at k when U[k] is null and exactly U[k] otherwise, for each key k of
\* U; every key of C that U does not mention keeps its value; no other key
\* appears.
C1_ReducerAppliesUpdate ==
    (rpc # "input" /\ cur.def /\ upd.def) =>
        /\ \A k \in DOMAIN upd.v :
              IF upd.v[k] = Null
              THEN k \notin DOMAIN out
              ELSE k \in DOMAIN out /\ out[k] = upd.v[k]
        /\ \A k \in DOMAIN cur.v \ DOMAIN upd.v :
              k \in DOMAIN out /\ out[k] = cur.v[k]
        /\ DOMAIN out \subseteq DOMAIN cur.v \cup DOMAIN upd.v

\* A merge that deletes one existing entry and replaces another.
C1_Witness ==
    /\ rpc = "reduced" /\ cur.def /\ upd.def
    /\ \E k \in DOMAIN cur.v \cap DOMAIN upd.v : upd.v[k] = Null
    /\ \E k \in DOMAIN cur.v \cap DOMAIN upd.v :
          upd.v[k] # Null /\ upd.v[k] # cur.v[k]

\* C2: the reducer is idempotent in its update: reducing the result again
\* with the same update gives the same result, for every current (absent
\* included) and every update (absent and null deletions included).
C2_ReducerIdempotent ==
    rpc = "again" => out2 = out

\* The second reduction of an update that deletes, on an absent current.
C2_Witness ==
    /\ rpc = "again" /\ ~cur.def /\ upd.def
    /\ \E k \in DOMAIN upd.v : upd.v[k] = Null
    /\ \E k \in DOMAIN upd.v : upd.v[k] # Null

--------------------------------------------------------------------------
\* Claims about the branches (SpecBranches).

\* The positions in applyOrder of the deltas that mention path p.
Mentioning(p) ==
    {i \in 1..Len(applyOrder) : p \in DOMAIN delta[applyOrder[i]]}

LastMention(p) ==
    CHOOSE i \in Mentioning(p) : \A j \in Mentioning(p) : j <= i

\* C3: after the deltas of the branches are applied one after another, the
\* entry of every path is the value of the last-applied delta that mentions
\* the path (absent when that value is null), and the entry it had before
\* when no applied delta mentions it; start order and call order do not
\* enter.
C3_LastAppliedWins ==
    \A p \in BranchPaths :
        IF Mentioning(p) = {}
        THEN /\ (p \in DOMAIN bfiles) = (p \in DOMAIN files0)
             /\ p \in DOMAIN bfiles => bfiles[p] = files0[p]
        ELSE LET v == delta[applyOrder[LastMention(p)]][p]
             IN  IF v = Null
                 THEN p \notin DOMAIN bfiles
                 ELSE p \in DOMAIN bfiles /\ bfiles[p] = v

\* All branches applied, two of them wrote the same path, and the branch that
\* started first and called first was applied last.
C3_Witness ==
    /\ \A b \in Branches : bpc[b] = "applied"
    /\ \E p \in BranchPaths : \E b1, b2 \in Branches :
          /\ b1 # b2
          /\ p \in DOMAIN delta[b1] /\ p \in DOMAIN delta[b2]
          /\ delta[b1][p] # Null /\ delta[b2][p] # Null
          /\ startOrder[1] = b1 /\ callOrder[1] = b1
          /\ applyOrder[Len(applyOrder)] = b1

--------------------------------------------------------------------------
\* Claims about the eviction interceptor (SpecEvict).

\* The messages of a handler result or of a returned result, in order.
MessagesOf(r) ==
    IF r.rtype = "message" THEN <<r.msg>>
    ELSE IF r.update.def /\ r.update.v.messages.def THEN r.update.v.messages.v
    ELSE <<>>

\* The files update a result carries (empty when it carries none).
FilesOf(r) ==
    IF r.rtype = "command" /\ r.update.def /\ r.update.v.files.def
    THEN r.update.v.files.v
    ELSE EmptyMap

EntryAt(m, k) == IF k \in DOMAIN m THEN Some(m[k]) ELSE Undefined

\* wrapToolCall has run on a call that is open to eviction.
Intercepted ==
    /\ epc # "ready"
    /\ toolTokenLimitBeforeEvict # 0
    /\ request.name \notin {"ls", "glob", "grep", "read_file", "edit_file",
                            "write_file"}

IsToolText(m) == m.type = "tool" /\ m.content.kind = "text"

\* The path the code derives for the eviction of message m.
PathFor(m) == EvictPath(sanitizeToolCallId(EvictionId(m)))

\* The positions of the messages that came back replaced by a notice.
EvictedPositions ==
    {i \in 1..Len(MessagesOf(hres)) :
        /\ Len(MessagesOf(ret)) = Len(MessagesOf(hres))
        /\ IsToolText(MessagesOf(hres)[i])
        /\ MessagesOf(ret)[i].content.kind = "notice"}

PreviewMaxLen(n) ==
    (DefaultHeadLines + DefaultTailLines)
        * (Max(Digits(n), LINE_NUMBER_WIDTH) + 1 + PreviewLineChars + 1)
    + MarkerFixedLen + Digits(n)

C7_ExcludedToolsPassThrough ==
    (epc # "ready" /\ request.name \in {"ls", "glob", "grep", "read_file",
                                        "edit_file", "write_file"}) =>
        ret = hres /\ writes = <<>> /\ store = EmptyMap

\* read_file returned a text over the threshold, and it came back as it was.
C7_Witness ==
    /\ epc = "returned" /\ request.name = "read_file"
    /\ toolTokenLimitBeforeEvict = TinyLimit
    /\ hres.rtype = "message" /\ IsToolText(hres.msg)
    /\ TextLen(hres.msg.content.lines) > Threshold(DefaultLimit)
    /\ ret = hres

\* C8: when the backend write of an eviction returns an error, the original
\* message is returned unmodified and nothing is added to the files update
\* for it.
C8_WriteErrorKeepsOriginal ==
    Intercepted =>
        \A i \in 1..Len(MessagesOf(hres)) :
            LET m == MessagesOf(hres)[i]
            IN  (IsToolText(m) /\ ExceedsLimit(m.content, toolTokenLimitBeforeEvict)
                    /\ PathFor(m) \in backend.denies) =>
                    /\ Len(MessagesOf(ret)) = Len(MessagesOf(hres))
                    /\ MessagesOf(ret)[i] = m
                    /\ EntryAt(FilesOf(ret), PathFor(m))
                           = EntryAt(FilesOf(hres), PathFor(m))
                    /\ hres.rtype = "message" => ret = hres

\* The write of an oversized result was refused.
C8_Witness ==
    /\ Intercepted /\ epc = "returned" /\ hres.rtype = "message"
    /\ Len(writes) = 1 /\ ~writes[1].ok
    /\ ret = hres

\* C9: in a batched result every tool message over the threshold whose write
\* succeeded comes back replaced by its notice, also when the backend returns
\* no fileUpdate, and the fileUpdate of every such eviction is in the files
\* update of the returned Command.
C9_BatchEvictsEachMessage ==
    (Intercepted /\ hres.rtype = "command") =>
        \A i \in 1..Len(MessagesOf(hres)) :
            LET m == MessagesOf(hres)[i]
            IN  (IsToolText(m) /\ ExceedsLimit(m.content, toolTokenLimitBeforeEvict)
                    /\ PathFor(m) \notin backend.denies) =>
                    /\ i \in EvictedPositions
                    /\ backend.kind = "state" =>
                          /\ PathFor(m) \in DOMAIN FilesOf(ret)
                          /\ FilesOf(ret)[PathFor(m)].content = m.content.lines

--------------------------------------------------------------------------
\* Claims about the preview (SpecPreview).

\* Line i of the content as a preview shows it: its number and its first
\* PreviewLineChars characters.
Shown(i) ==
    [kind |-> "numbered", num |-> i,
     line |-> Substring(pvContent[i], PreviewLineChars)]

\* C11: createContentPreview with headLines = tailLines = 5: for a content of
\* at most 10 lines the preview has every line of the content, each under its
\* number; for a content of n > 10 lines it has exactly 11 output lines: the
\* first 5 lines, one marker line stating that n - 10 lines were truncated,
\* and the last 5 lines under their original numbers.
C11_DefaultPreview ==
    (pvpc = "done" /\ pvHead = DefaultHeadLines /\ pvTail = DefaultTailLines) =>
        LET n == Len(pvContent)
            h == DefaultHeadLines
            t == DefaultTailLines
        IN  IF n <= h + t
            THEN pvOut = [i \in 1..n |-> Shown(i)]
            ELSE pvOut = [j \in 1..(h + t + 1) |->
                            IF j <= h THEN Shown(j)
                            ELSE IF j = h + 1 THEN MarkerLine(n - (h + t))
                            ELSE Shown(n - t + (j - h - 1))]

\* The default preview of a text of 12 lines: 11 output lines.
C11_Witness ==
    /\ pvpc = "done"
    /\ pvHead = DefaultHeadLines
    /\ pvTail = DefaultTailLines
    /\ Len(pvContent) = DefaultHeadLines + DefaultTailLines + 2
    /\ Len(pvOut) = DefaultHeadLines + DefaultTailLines + 1

\* The output lines of a preview that carry a line of the content or the
\* marker (the empty output line of an empty sample left out).
PreviewBody ==
    LET Carries(o) == o.kind # "empty"
    IN  SelectSeq(pvOut, Carries)

\* C20: for every headLines >= 0, tailLines >= 0 and content of more than
\* headLines + tailLines lines, the preview shows exactly the first headLines
\* lines and exactly the last tailLines lines, separated by a single marker,
\* the first tail line numbered (total - tailLines + 1).
C20_HeadAndTailShown ==
    (pvpc = "done" /\ Len(pvContent) > pvHead + pvTail) =>
        LET n == Len(pvContent)
        IN  /\ Len(PreviewBody) = pvHead + pvTail + 1
            /\ \A j \in 1..Len(PreviewBody) :
                    IF j <= pvHead THEN PreviewBody[j] = Shown(j)
                    ELSE IF j = pvHead + 1 THEN PreviewBody[j].kind = "marker"
                    ELSE PreviewBody[j] = Shown(n - pvTail + (j - pvHead - 1))

--------------------------------------------------------------------------
\* Claims about read_file (SpecRead).

\* The number of lines of a text; the empty string has none.
LineCount(text) == IF text = <<EmptyLine>> THEN 0 ELSE Len(text)

\* The character cap applies to the result of this call.
ReadCapped ==
    /\ rdTokenLimit # 0
    /\ TextLen(EnforceLineLimit(rdResult, rdLimit))
           >= NUM_CHARS_PER_TOKEN * rdTokenLimit

\* C12 as stated: the text read_file returns never has more lines than the
\* requested limit, for every backend result and every limit, also when the
\* character cap and its truncation notice are applied.
C12_Original == rdpc = "done" => LineCount(rdOut) <= rdLimit

\* C12 (amended): when the character cap is not applied the returned text
\* has at most limit lines, for every backend result (one of more lines than
\* asked included); when the cap is applied the returned text is at most
\* limit lines of the result followed by the two lines of the notice (an
\* empty line and the notice itself), so it has at most limit + 2 lines.
C12_LimitPlusNotice ==
    rdpc = "done" =>
        IF ReadCapped
        THEN /\ Len(rdOut) >= 3
             /\ Len(rdOut) - 2 <= rdLimit
             /\ rdOut[Len(rdOut) - 1] = EmptyLine
             /\ rdOut[Len(rdOut)] = ReadNoticeLine(rdPathLen)
        ELSE LineCount(rdOut) <= rdLimit

\* A capped read of a result of more lines than asked returned limit + 2
\* lines.
C12_Witness ==
    /\ rdpc = "done"
    /\ ReadCapped
    /\ Len(rdResult) > rdLimit
    /\ Len(rdOut) = rdLimit + 2

--------------------------------------------------------------------------
\* Claims about the file tools (SpecSession).

\* C13: an edit_file call on a path that no read_file call of the session
\* was made on returns an error and updates no file: an edit changes a file
\* only if a read of that path precedes it.
C13_EditRequiresRead ==
    (ssLast.tool = "edit_file" /\ ~ssLast.wasRead) =>
        /\ ssLast.error
        /\ ~ssLast.update.def
        /\ ssFiles = ssLast.before

--------------------------------------------------------------------------
\* Claims about the skills and memory loaders (SpecLoaders).

\* The positions of the sources whose listing, at the time of the last
\* beforeAgent call, gave a skill named n.
SourcesDefining(n) ==
    {i \in 1..Len(SkillSources) :
        LET r == listSkillsFromBackend(skLast.at, SkillSources[i])
        IN  ~r.thrown /\ \E k \in 1..Len(r.skills) : r.skills[k].name = n}

SkillNames == {"pdf", "web"}

SkillsLoaded == skLast.call = "beforeAgent" /\ skLast.loading /\ ~skLast.thrown

\* C14: when a skill name is defined in several configured sources, the
\* skill registered after loading is the one from the source that comes
\* latest in configured order, and each name is registered exactly once.
C14_LatestSourceWins ==
    SkillsLoaded =>
        \A n \in SkillNames :
            SourcesDefining(n) # {} =>
                LET at == {k \in 1..Len(loadedSkills) : loadedSkills[k].name = n}
                    latest == CHOOSE i \in SourcesDefining(n) :
                                  \A j \in SourcesDefining(n) : j <= i
                IN  /\ Cardinality(at) = 1
                    /\ \A k \in at : loadedSkills[k].path[1] = SkillSources[latest]

\* Both sources define the skill pdf, and the loading registered it.
C14_Witness ==
    /\ SkillsLoaded
    /\ SourcesDefining("pdf") = {1, 2}
    /\ \E k \in 1..Len(loadedSkills) : loadedSkills[k].name = "pdf"

\* The backend resolved for the last call, from the state the run was in.
ResolvedIsSandbox == isSandboxBackend(getBackend(exBackend, exLast.state))

\* C18: the execute tool is offered to the model exactly when the backend
\* resolved for the call is sandbox-capable, and an execute call against a
\* backend that is not returns an explanatory error text, does not throw and
\* runs no command.
C18_ExecuteOnlyOnSandbox ==
    /\ exLast.call = "wrapModelCall" =>
           ("execute" \in exLast.offered <=> ResolvedIsSandbox)
    /\ (exLast.call = "execute" /\ ~ResolvedIsSandbox) =>
           /\ exLast.kind = "error"
           /\ ~exLast.thrown
           /\ exRan = exLast.ranBefore

\* execute was called against a backend that is no sandbox, after a command
\* had been run in a state where the factory gave a sandbox.
C18_Witness ==
    /\ exLast.call = "execute"
    /\ ~ResolvedIsSandbox
    /\ exLast.kind = "error"
    /\ Len(exRan) > 0

\* C19: skill metadata is loaded once per run: after the first beforeAgent
\* call of a run every later beforeAgent call makes no backend listing or
\* read and returns no state update, and the registered skills stay as they
\* were, also when the first load found no skills.
C19_LoadedOncePerRun ==
    (skLast.call = "beforeAgent" /\ skCalls >= 2) =>
        /\ skLast.ops = 0
        /\ ~skLast.update.def
        /\ RegisteredSkills(loadedSkills, skState) = skLast.registeredBefore

\* What loadMemoryFromBackend makes of source path.
Loads(path) ==
    LET r == loadMemoryFromBackend(memBackend, path)
    IN  ~r.thrown /\ r.content.def /\ r.content.v # ""

\* The backend reports an error other than file_not_found for the path, or
\* throws.
OtherError(path) ==
    memBackend.files[path].res \in {"permission_denied", "no_response", "throws"}

\* C15 as stated: file_not_found is skipped silently, and any other backend
\* error reported or thrown while a source is loaded propagates out of memory
\* loading and is surfaced to the run.
C15_Original ==
    memLoad.done =>
        \A i \in 1..Len(memSources) :
            /\ memBackend.files[memSources[i]].res = "file_not_found" =>
                   (Len(memLoad.log) >= i /\ memLoad.log[i] = "skipped")
            /\ OtherError(memSources[i]) => memLoad.thrown

\* C15 (amended): file_not_found is skipped silently; any other error that
\* the backend reports through downloadFiles, and any throw, makes
\* loadMemoryFromBackend throw, and beforeAgent catches it, logs it and goes
\* on with the next source, so it never leaves beforeAgent; an error that a
\* backend without downloadFiles reports in the text it returns is skipped
\* silently.  In every case the source is absent from the loaded contents.
C15_OtherErrorsLoggedAndSkipped ==
    memLoad.done =>
        /\ ~memLoad.thrown
        /\ Len(memLoad.log) = Len(memSources)
        /\ \A i \in 1..Len(memSources) :
               LET res == memBackend.files[memSources[i]].res
               IN  /\ res = "file_not_found" => memLoad.log[i] = "skipped"
                   /\ (res \in {"permission_denied", "no_response"}
                          /\ memBackend.download) => memLoad.log[i] = "failed"
                   /\ res = "throws" => memLoad.log[i] = "failed"
                   /\ (res = "permission_denied" /\ ~memBackend.download) =>
                          memLoad.log[i] = "skipped"
                   /\ res # "content" =>
                          memSources[i] \notin DOMAIN memState.v

\* A source failed with an error other than file_not_found, the load went
\* on, and the next source was loaded.
C15_Witness ==
    /\ memLoad.done
    /\ memBackend.download
    /\ Len(memSources) = 2
    /\ memBackend.files[memSources[1]].res = "permission_denied"
    /\ memLoad.log = <<"failed", "loaded">>
    /\ memState.def

\* C16: the failure of a single skill source or memory source never aborts
\* loading: beforeAgent completes without throwing, and every other source
\* that can be loaded is loaded and registered.
C16_SourceFailuresAreSoft ==
    /\ skLast.call = "beforeAgent" =>
           /\ ~skLast.thrown
           /\ skLast.loading =>
                  \A i \in 1..Len(SkillSources) :
                      LET r == listSkillsFromBackend(skLast.at, SkillSources[i])
                      IN  ~r.thrown =>
                              \A k \in 1..Len(r.skills) :
                                  \E j \in 1..Len(loadedSkills) :
                                      loadedSkills[j].name = r.skills[k].name
    /\ memLoad.done =>
           /\ ~memLoad.thrown
           /\ memState.def
           /\ \A i \in 1..Len(memSources) :
                  Loads(memSources[i]) =>
                      /\ memSources[i] \in DOMAIN memState.v
                      /\ memState.v[memSources[i]] =
                             memBackend.files[memSources[i]].content

\* The first skill source failed, and the skill of the second was
\* registered.
C16_Witness ==
    /\ skLast.call = "beforeAgent"
    /\ skLast.loading
    /\ listSkillsFromBackend(skLast.at, SkillSources[1]).thrown
    /\ Len(listSkillsFromBackend(skLast.at, SkillSources[2]).skills) > 0
    /\ Len(loadedSkills) > 0

\* The sources of the configuration that were loaded, in configured order.
LoadedSources ==
    LET Ok(path) == Loads(path)
    IN  SelectSeq(memSources, Ok)

\* C17: the memory text put in the prompt has one segment for every source
\* that was loaded, in configured source order, each under its path; no
\* source is dropped or overridden by another.
C17_OneSegmentPerSource ==
    (memLoad.done /\ memPrompt.kind \in {"none", "sections"}) =>
        /\ memPrompt.sections =
               [k \in 1..Len(LoadedSources) |->
                   MemorySection(LoadedSources[k],
                                 memBackend.files[LoadedSources[k]].content)]
        /\ memPrompt.kind = "none" <=> LoadedSources = <<>>

\* Two different sources were loaded and both are in the prompt.
C17_Witness ==
    /\ memLoad.done
    /\ memPrompt.kind = "sections"
    /\ Len(memPrompt.sections) = 2
    /\ memPrompt.sections[1].path # memPrompt.sections[2].path

--------------------------------------------------------------------------
\* More claims about read_file (SpecRead).

\* C21: when read_file applies its character cap, the returned text (the
\* prefix of the content and the truncation notice naming the file) is never
\* longer than toolTokenLimitBeforeEvict x NUM_CHARS_PER_TOKEN characters,
\* for every threshold and every length of the file path.
C21_CappedWithinThreshold ==
    (rdpc = "done" /\ ReadCapped) =>
        TextLen(rdOut) <= NUM_CHARS_PER_TOKEN * rdTokenLimit

--------------------------------------------------------------------------
\* More claims about write_file and edit_file (SpecSession).

\* The confirmation a handler builds for the call.
IsConfirmation(m) ==
    /\ m.type = "tool"
    /\ m.name = ssLast.tool
    /\ m.content[1] \in {"Successfully wrote to", "Successfully replaced"}
    /\ m.content[Len(m.content)] = ssLast.path

\* C22: write_file and edit_file emit a files update if and only if the
\* backend call succeeded and produced a fileUpdate, and then the
\* confirmation message and the fileUpdate travel in the same update; when
\* the backend returns an error the tool returns only the error text, and
\* the FilesMap is unchanged.
C22_FilesUpdateIffSuccess ==
    ssLast.tool \in {"write_file", "edit_file"} =>
        /\ ssLast.ret.files.def <=>
               (~ssLast.result.error /\ ssLast.result.filesUpdate.def)
        /\ ssLast.ret.files.def =>
               /\ ssLast.ret.rtype = "command"
               /\ ssLast.ret.files = ssLast.result.filesUpdate
               /\ Len(ssLast.ret.messages) = 1
               /\ IsConfirmation(ssLast.ret.messages[1])
        /\ ssLast.result.error =>
               /\ ssLast.ret.rtype = "text"
               /\ ssLast.ret.messages = <<>>
               /\ ssFiles = ssLast.before

\* Reached: an edit that the state backend carried out, whose Command
\* carries the changed file and the confirmation.
C22_Witness ==
    /\ ssLast.tool = "edit_file"
    /\ ssLast.ret.rtype = "command"
    /\ ssLast.ret.files.def
    /\ ssFiles # ssLast.before
    /\ Len(ssLast.ret.messages) = 1

--------------------------------------------------------------------------
\* Claims about the grep tool (SpecGrep).

\* The positions of the headers and of the match lines in the tool's text.
HeaderAt(p) == {i \in 1..Len(gpOut) : gpOut[i].kind = "header" /\ gpOut[i].path = p}
MatchLinesAt == {i \in 1..Len(gpOut) : gpOut[i].kind = "match"}
\* The header above line i of the text.
HeaderAbove(i) ==
    LET hs == {j \in 1..i : gpOut[j].kind = "header"}
    IN  gpOut[CHOOSE j \in hs : \A k \in hs : k <= j].path
\* The match that the k-th match line of the text shows.
NthMatchLine(k) ==
    CHOOSE i \in MatchLinesAt : Cardinality({j \in MatchLinesAt : j <= i}) = k

GroupedByFile ==
    /\ Cardinality(MatchLinesAt) = Len(gpResult.matches)
    /\ \A k \in 1..Len(gpResult.matches) :
          /\ gpOut[NthMatchLine(k)] = MatchLine(gpResult.matches[k])
          /\ HeaderAbove(NthMatchLine(k)) = gpResult.matches[k].path
    /\ \A p \in {gpResult.matches[k].path : k \in 1..Len(gpResult.matches)} :
          Cardinality(HeaderAt(p)) = 1

\* C23: in the grep tool's output the matches are grouped by file for every
\* match list the backend may return: each file's header appears exactly
\* once and all matches of the file follow it before the next header, also
\* when the backend returns matches of different files interleaved.
C23_GroupedByFile ==
    (gppc = "done" /\ gpResult.kind = "matches" /\ Len(gpResult.matches) > 0) =>
        GroupedByFile

--------------------------------------------------------------------------
\* Claims about skillsMetadataReducer (SpecSkillsReducer).

NamesOf(skills) == {skills[i].name : i \in 1..Len(skills)}
ArrayOf(opt) == IF opt.def THEN opt.v ELSE <<>>
NoTwoWithSameName(skills) ==
    \A i, j \in 1..Len(skills) : skills[i].name = skills[j].name => i = j
\* The last entry of the array with the name.
LastNamed(skills, n) ==
    skills[CHOOSE i \in 1..Len(skills) :
               /\ skills[i].name = n
               /\ \A j \in 1..Len(skills) : skills[j].name = n => j <= i]

UpdateWins ==
    \A n \in NamesOf(ArrayOf(srCurrent)) \cap NamesOf(ArrayOf(srUpdate)) :
        \E i \in 1..Len(srOut) : srOut[i] = LastNamed(ArrayOf(srUpdate), n)

\* C24: the result of skillsMetadataReducer never contains two entries with
\* the same skill name, for every current and update array (an absent or
\* empty current and an update with duplicate names included); for a name
\* present in both, the entry from update wins.
C24_NoDuplicateNames ==
    srpc = "done" => (NoTwoWithSameName(srOut) /\ UpdateWins)

--------------------------------------------------------------------------
\* More claims about the skills middleware (SpecLoaders).

\* What the first beforeAgent call of a run finds for the run: the skills its
\* state restored, or else those its resolved backend lists.
SkillsOfRun ==
    IF Len(skRun.restored) > 0 THEN skRun.restored
    ELSE LoadSkillSources(SkillSources, skLast.at,
                          [all |-> <<>>, ops |-> 0, thrown |-> FALSE]).all

\* C25: the skill loader keeps no state between runs or branches: the skills
\* shown to the model in a run are exactly those loaded from the run's
\* resolved backend (or restored from the run's state), and skills loaded by
\* one run through a middleware instance never appear in, or suppress
\* loading for, another run that uses the same instance.
C25_NoStateBetweenRuns ==
    (skLast.call = "beforeAgent" /\ skCalls = 1) =>
        /\ RegisteredSkills(loadedSkills, skState) = SkillsOfRun
        /\ Len(skRun.restored) = 0 => skLast.loading

--------------------------------------------------------------------------
\* More claims about the branches (SpecBranches).

\* The files channel m after the delta of branch b is applied to it.
DeltaApplied(m, b) == fileDataReducer(Some(m), Some(delta[b]))

HasDelta(b) == bpc[b] \in {"called", "applied"}

\* C26: fileDataReducer updates on disjoint paths commute: for every FilesMap
\* C and updates U1, U2 that share no key, U1 then U2 gives the same FilesMap
\* as U2 then U1, so branches that touch different paths reach the same
\* state in every completion order.
C26_DisjointUpdatesCommute ==
    \A b1, b2 \in Branches :
        (/\ b1 # b2 /\ HasDelta(b1) /\ HasDelta(b2)
         /\ DOMAIN delta[b1] \cap DOMAIN delta[b2] = {}) =>
            /\ DeltaApplied(DeltaApplied(files0, b1), b2)
                  = DeltaApplied(DeltaApplied(files0, b2), b1)
            /\ applyOrder = <<b1, b2>> =>
                  bfiles = DeltaApplied(DeltaApplied(files0, b2), b1)

\* Two branches completed, the second before the first: one deleted a file
\* that was there, the other wrote a different path.
C26_Witness ==
    /\ Len(applyOrder) >= 2 /\ applyOrder[1] = 2 /\ applyOrder[2] = 1
    /\ DOMAIN delta[1] \cap DOMAIN delta[2] = {}
    /\ \E p \in DOMAIN delta[1] \cap DOMAIN files0 : delta[1][p] = Null
    /\ \E p \in DOMAIN delta[2] : delta[2][p] # Null
    /\ bfiles # files0

--------------------------------------------------------------------------
\* More claims about the eviction interceptor (SpecEvict).

\* Message m came back as r: as it was, or replaced by its eviction notice.
SameOrEvicted(m, r) ==
    \/ r = m
    \/ /\ IsToolText(m)
       /\ ExceedsLimit(m.content, toolTokenLimitBeforeEvict)
       /\ r = ToolMessage(ReplacementText(m, PathFor(m)), m.tool_call_id, m.name)

\* The paths the evictions of the call wrote.
WrittenPaths == {writes[i].path : i \in {j \in 1..Len(writes) : writes[j].ok}}

\* C27: when the interceptor rewrites a batched Command result it changes
\* only evicted tool messages: the number and order of the messages is
\* preserved, messages that are not tool messages or are under the threshold
\* are passed unchanged, every other field of the update is kept, and every
\* files entry already in the Command's update remains in the returned files
\* update unless an eviction wrote the same path.
C27_BatchRewriteFrame ==
    (epc # "ready" /\ hres.rtype = "command") =>
        /\ ret.rtype = "command"
        /\ ret.update.def = hres.update.def
        /\ Len(MessagesOf(ret)) = Len(MessagesOf(hres))
        /\ \A i \in 1..Len(MessagesOf(hres)) :
              LET m == MessagesOf(hres)[i]
              IN  /\ SameOrEvicted(m, MessagesOf(ret)[i])
                  /\ (~IsToolText(m)
                        \/ ~ExceedsLimit(m.content, toolTokenLimitBeforeEvict)) =>
                         MessagesOf(ret)[i] = m
        /\ hres.update.def =>
              /\ ret.update.v.messages.def = hres.update.v.messages.def
              /\ ret.update.v.other = hres.update.v.other
        /\ \A k \in DOMAIN FilesOf(hres) :
              /\ k \in DOMAIN FilesOf(ret)
              /\ k \notin WrittenPaths => FilesOf(ret)[k] = FilesOf(hres)[k]

\* A rewritten batch: one message evicted, the message next to it passed as
\* it was, the update's other field and its files entry kept beside the
\* evicted file.
C27_Witness ==
    /\ epc = "returned" /\ hres.rtype = "command" /\ ret # hres
    /\ Len(MessagesOf(hres)) = 2
    /\ MessagesOf(hres)[1].type = "ai"
    /\ MessagesOf(ret)[1] = MessagesOf(hres)[1]
    /\ MessagesOf(ret)[2] # MessagesOf(hres)[2]
    /\ NotesPath \in DOMAIN FilesOf(hres)
    /\ DOMAIN FilesOf(ret) = {NotesPath} \cup WrittenPaths
    /\ WrittenPaths # {}
    /\ ret.update.v.other = Some("goto")

--------------------------------------------------------------------------
\* Claims about the filesystem routes (SpecRoutes).

\* The path is the workspace root or lies below it.
InsideWorkspace(p) == IsPrefixPath(WORKSPACE_PATH, p)

\* C28: every operation of the filesystem routes (list, content, write,
\* delete, mkdir) touches only paths inside the workspace root: a request
\* path that resolves outside the root, a sibling directory whose name
\* starts with the root's name included, is answered with 403 and causes no
\* file system access.
C28_OnlyInsideWorkspace ==
    rtLast.route \in {"list", "content", "write", "delete", "mkdir"} =>
        /\ \A p \in rtLast.touched : InsideWorkspace(p)
        /\ ~InsideWorkspace(rtLast.resolved) =>
              (rtLast.status = 403 /\ rtLast.touched = {} /\ rtFs = rtLast.before)

--------------------------------------------------------------------------
\* Claims about streamResearch (SpecResearch).

\* C29: a research session that streamResearch has persisted with status
\* 'running' is persisted with status 'completed' or 'error' by the time
\* streamResearch returns or throws, also when the stream is aborted through
\* the abort signal: no finished or aborted stream leaves its session in
\* status 'running'.
C29_NoSessionLeftRunning ==
    rsPc \in {"returned", "thrown"} => rsSession \in {"completed", "error"}

--------------------------------------------------------------------------
\* Claims about useRecentInputs (SpecRecent).

Holds(list, x) == \E i \in 1..Len(list) : list[i] = x

\* The last call added an input that has text.
AddedText == riLast.op = "add" /\ riLast.input.text # 0

\* C30: after any sequence of addRecentInput and clearRecentInputs calls the
\* list holds at most 10 entries, no duplicates and no empty or
\* whitespace-padded entries, and is ordered most recently added first;
\* adding an entry that is in the list moves it to the front and leaves the
\* length of the list as it was.
C30_RecentInputsWellFormed ==
    /\ Len(recentInputs) <= MAX_ITEMS
    /\ \A i, j \in 1..Len(recentInputs) : recentInputs[i] = recentInputs[j] => i = j
    /\ \A i \in 1..Len(recentInputs) :
          recentInputs[i].text # 0 /\ ~recentInputs[i].pad
    /\ AddedText =>
          /\ recentInputs[1] = Trim(riLast.input)
          /\ Tail(recentInputs)
                = SliceTo(FilterOut(riLast.before, Trim(riLast.input)), MAX_ITEMS - 1)
          /\ Holds(riLast.before, Trim(riLast.input)) =>
                Len(recentInputs) = Len(riLast.before)
    /\ riLast.op = "clear" => recentInputs = <<>>
    /\ (riLast.op = "add" /\ ~AddedText) => recentInputs = riLast.before

\* The last entry of a full list was typed again with blanks around it: it is
\* in front, and the list is as long as before.
C30_Witness ==
    /\ AddedText /\ riLast.input.pad
    /\ Len(riLast.before) = MAX_ITEMS
    /\ riLast.before[MAX_ITEMS] = Trim(riLast.input)
    /\ recentInputs[1] = Trim(riLast.input)
    /\ Len(recentInputs) = MAX_ITEMS

====
